---- MODULE Spec2Model ----
(***************************************************************************)
(* Model of the BLS time-series client (backend/src/services/blsClient.ts) *)
(* as a state machine: the process-wide cache, the wall clock, the process *)
(* environment, and two logical calls whose suspension points (fetch,      *)
(* backoff sleep, promise hops between batches) are the interleaving       *)
(* points of the single-threaded event loop.                               *)
(*                                                                         *)
(* Series identifiers are modelled by their rank in the code-unit order    *)
(* that Array.prototype.sort() uses, so sorting strings is sorting ranks.  *)
(* A cache key string `${ids.join(',')}_${start}_${end}` is modelled by    *)
(* the triple of its three parts.                                          *)
(***************************************************************************)
EXTENDS Integers, Sequences, FiniteSets, TLC

VARIABLES cache, now, env, calls

vars == <<cache, now, env, calls>>

(***************************************************************************)
(* Bounds and input pools                                                  *)
(***************************************************************************)
\* Date.now() advances in steps of one millisecond up to MaxTime.
MaxTime == 2

\* The logical calls of a run, numbered in the order in which they start,
\* and the two of them that may be in flight together.
Calls == {1, 2, 3}

Pair == {1, 2}

\* An optional argument that was not passed (startYear?, endYear?).
Undefined == -1

\* An unset environment variable, an absent field of a request body.
Unset == "undefined"

Absent == "absent"

Desc(n) == [k \in 1..n |-> n + 1 - k]

Asc(n) == [k \in 1..n |-> k]

\* Lengths of the long identifier lists callers pass.
LongLen == 60

DupLen == 25

\* Rank of an identifier that is never requested (a series the provider
\* returns although nobody asked for it).
OtherId == LongLen + 1

\* Lists of series identifiers passed to getMultipleSeries: the empty list,
\* a short list in both orders, LongLen identifiers in descending and in
\* ascending order, and a list whose second half repeats its first half.
IdLists ==
  { <<>>, <<1, 2>>, <<2, 1>>,
    Desc(LongLen), Asc(LongLen), Asc(DupLen) \o Desc(DupLen) }

NoOverrides == [f \in {} |-> TRUE]

\* Per-call configuration overrides (Partial<BLSClientConfig>).
Overrides ==
  { NoOverrides,
    [enableCache |-> FALSE],
    [enableCache |-> TRUE],
    [apiKey |-> "call-key"],
    [maxRetries |-> 1],
    [maxRetries |-> 2, retryDelay |-> 10],
    [cacheTTL |-> 1] }

Request(op, ids, startYear, endYear, config) ==
  [op |-> op, ids |-> ids, startYear |-> startYear, endYear |-> endYear,
   config |-> config]

\* A list one identifier longer than the smaller batch ceiling.
JustOver == Asc(26)

\* Calls that a caller races against each other: one single-series request
\* under the cache-related overrides, a two-series request in both orders,
\* and a request that exceeds the smaller batch ceiling by one identifier.
RacingRequests ==
  {Request("getSeries", <<1>>, 2023, 2023, o) :
     o \in { [maxRetries |-> 1],
             [maxRetries |-> 1, cacheTTL |-> 1],
             [maxRetries |-> 1, enableCache |-> FALSE],
             [maxRetries |-> 2, retryDelay |-> 10] }}
  \cup {Request("getMultipleSeries", ids, 2023, 2023, [maxRetries |-> 1]) :
          ids \in {<<1, 2>>, <<2, 1>>, JustOver}}

\* Calls that a caller awaits one after the other: getSeries under every
\* override and without year bounds.
RetryRequests ==
  {Request("getSeries", <<1>>, 2023, 2023, o) : o \in Overrides}
  \cup {Request("getSeries", <<1>>, Undefined, Undefined, NoOverrides),
        Request("getMultipleSeries", JustOver, 2023, 2023, [maxRetries |-> 1])}

\* Calls that a caller awaits one after the other: getMultipleSeries for
\* every list (one of them with a retry), and a getSeries.
BatchRequests ==
  {Request("getMultipleSeries", ids, 2023, 2023, [maxRetries |-> 1]) :
     ids \in IdLists \ {Desc(LongLen)}}
  \cup {Request("getMultipleSeries", Desc(LongLen), 2023, 2023,
                [maxRetries |-> 2]),
        Request("getSeries", <<1>>, 2023, 2023, [maxRetries |-> 1])}

\* Calls that a caller repeats, awaiting each: a single-series request
\* under the default and under a short cacheTTL, and a request that is
\* split.
RepeatRequests ==
  {Request("getSeries", <<1>>, 2023, 2023, o) :
     o \in { [maxRetries |-> 1], [maxRetries |-> 1, cacheTTL |-> 1] }}
  \cup {Request("getMultipleSeries", JustOver, 2023, 2023,
                [maxRetries |-> 1])}

\* Calls that run together while the cache is cleared: a single-series
\* request with and without year bounds, which have different keys.
ClearRequests ==
  {Request("getSeries", <<1>>, y, y, [maxRetries |-> 1]) :
     y \in {2023, Undefined}}

\* Calls of getMultipleSeries that a caller awaits one after the other:
\* one request, and two batches with a retry.
LiveRequests ==
  {Request("getMultipleSeries", <<1, 2>>, 2023, 2023, [maxRetries |-> 1]),
   Request("getMultipleSeries", JustOver, 2023, 2023, [maxRetries |-> 2])}

\* process.env: nothing set, a credential set, or a credential set and
\* caching switched off.
NoEnv ==
  [BLS_API_KEY |-> Unset, BLS_CACHE_ENABLED |-> Unset, BLS_ENABLED |-> Unset,
   BLS_CACHE_TTL_MS |-> Unset, BLS_RETRY_MAX_ATTEMPTS |-> Unset,
   BLS_RETRY_BASE_DELAY_MS |-> Unset]

KeyEnv == [NoEnv EXCEPT !.BLS_API_KEY = "env-key"]

KeyNoCacheEnv == [KeyEnv EXCEPT !.BLS_CACHE_ENABLED = "false"]

Envs == {NoEnv, KeyEnv, KeyNoCacheEnv}

\* process.env of the enrichment service: nothing set, enrichment switched
\* off, or the cache TTL and the retry settings set.
DisabledEnv == [NoEnv EXCEPT !.BLS_ENABLED = "false"]

TunedEnv ==
  [NoEnv EXCEPT !.BLS_CACHE_TTL_MS = "1", !.BLS_RETRY_MAX_ATTEMPTS = "1",
                !.BLS_RETRY_BASE_DELAY_MS = "10"]

CareerEnvs == {NoEnv, DisabledEnv, TunedEnv}

\* The careers callers ask about: two of the table, two added to it, and
\* one that has no mapping.
CareerIds == {"rn-001", "elec-001", "partial-001", "empty-001", "unknown"}

(***************************************************************************)
(* Configuration                                                           *)
(***************************************************************************)
DEFAULT_CONFIG ==
  [ apiKey |-> "",
    baseUrl |-> "https://api.bls.gov/publicAPI/v2",
    enableCache |-> TRUE,
    cacheTTL |-> 3600000,
    maxRetries |-> 3,
    retryDelay |-> 1000 ]

\* Mutant: a field of a wins over the same field of b.
Spread_FirstWins(a, b) ==
  [f \in DOMAIN a \cup DOMAIN b |-> IF f \in DOMAIN a THEN a[f] ELSE b[f]]

\* {...a, ...b}: a field of b wins over the same field of a.
Spread(a, b) ==
  [f \in DOMAIN a \cup DOMAIN b |-> IF f \in DOMAIN b THEN b[f] ELSE a[f]]

\* process.env.BLS_API_KEY || ''
EnvApiKey(e) == IF e.BLS_API_KEY = Unset THEN "" ELSE e.BLS_API_KEY

\* process.env.BLS_CACHE_ENABLED !== 'false'
EnvCacheEnabled(e) == e.BLS_CACHE_ENABLED # "false"

getConfigIn(e, overrides) ==
  Spread(Spread(DEFAULT_CONFIG,
                [apiKey |-> EnvApiKey(e), enableCache |-> EnvCacheEnabled(e)]),
         overrides)

getConfig(overrides) == getConfigIn(env, overrides)

\* parseInt(s, 10) of the decimal strings the environment holds.
ParseInt(str) ==
  CASE str = "1" -> 1
    [] str = "3" -> 3
    [] str = "10" -> 10
    [] str = "1000" -> 1000
    [] str = "3600000" -> 3600000

\* process.env.NAME || fallback
EnvOr(value, fallback) == IF value = Unset THEN fallback ELSE value

\* getBLSConfig(): the enrichment flag, the cache settings and the retry
\* settings of the environment (its series identifiers are read by no
\* caller and are left out).
getBLSConfigIn(e) ==
  [ enabled |-> e.BLS_ENABLED # "false",
    cache |-> [ enabled |-> e.BLS_CACHE_ENABLED # "false",
                ttlMs |-> ParseInt(EnvOr(e.BLS_CACHE_TTL_MS, "3600000")) ],
    retry |-> [ maxAttempts |->
                  ParseInt(EnvOr(e.BLS_RETRY_MAX_ATTEMPTS, "3")),
                baseDelayMs |->
                  ParseInt(EnvOr(e.BLS_RETRY_BASE_DELAY_MS, "1000")) ] ]

getBLSConfig == getBLSConfigIn(env)

\* The series identifiers of the table, as their ranks in the order of
\* Array.prototype.sort(): 'CES0500000003' < 'CUSR0000SA0' < 'LNS14000000'.
CES0500000003 == 1

CUSR0000SA0 == 2

LNS14000000 == 3

\* A role of a mapping that has no series identifier (cpi?: string).
NoSeries == 0

AllRoles ==
  [cpi |-> CUSR0000SA0, unemployment |-> LNS14000000, wages |-> CES0500000003]

\* CAREER_BLS_MAPPINGS: the three mappings of the table, followed by two
\* mappings added for other careers, one without a price index and one
\* without any series.
CAREER_BLS_MAPPINGS ==
  << [careerId |-> "rn-001", seriesIds |-> AllRoles],
     [careerId |-> "ma-001", seriesIds |-> AllRoles],
     [careerId |-> "elec-001", seriesIds |-> AllRoles],
     [careerId |-> "partial-001",
      seriesIds |-> [AllRoles EXCEPT !.cpi = NoSeries]],
     [careerId |-> "empty-001",
      seriesIds |-> [cpi |-> NoSeries, unemployment |-> NoSeries,
                     wages |-> NoSeries]] >>

\* null
NoMapping ==
  [careerId |-> "",
   seriesIds |-> [cpi |-> NoSeries, unemployment |-> NoSeries,
                  wages |-> NoSeries]]

RECURSIVE FindMapping(_, _)
FindMapping(mappings, careerId) ==
  IF Len(mappings) = 0 THEN NoMapping
  ELSE IF mappings[1].careerId = careerId THEN mappings[1]
  ELSE FindMapping(Tail(mappings), careerId)

\* Mutant: a career without a mapping gets the first mapping of the table.
getBlsMappingForCareer_First(careerId) ==
  IF FindMapping(CAREER_BLS_MAPPINGS, careerId) = NoMapping
    THEN CAREER_BLS_MAPPINGS[1]
    ELSE FindMapping(CAREER_BLS_MAPPINGS, careerId)

\* CAREER_BLS_MAPPINGS.find(m => m.careerId === careerId) || null
getBlsMappingForCareer(careerId) == FindMapping(CAREER_BLS_MAPPINGS, careerId)

\* [cpi, unemployment, wages].filter(Boolean)
wantedSeries(mapping) ==
  SelectSeq(<<mapping.seriesIds.cpi, mapping.seriesIds.unemployment,
              mapping.seriesIds.wages>>,
            LAMBDA id : id # NoSeries)

\* new Date().getFullYear()
currentYear == 2023

\* getSeriesFriendlyName: the switch over the roles of the mapping.
getSeriesFriendlyName(seriesId, mapping) ==
  IF seriesId = mapping.seriesIds.cpi THEN "Consumer Price Index (CPI)"
  ELSE IF seriesId = mapping.seriesIds.unemployment THEN "Unemployment Rate"
  ELSE IF seriesId = mapping.seriesIds.wages THEN "Average Hourly Earnings"
  ELSE ToString(seriesId)

\* seriesList.map(s => ({seriesId, name, ...})), lines 36-47.
Indicators(seriesList, mapping) ==
  [k \in 1..Len(seriesList) |->
     [seriesId |-> seriesList[k].seriesID,
      name |-> getSeriesFriendlyName(seriesList[k].seriesID, mapping)]]

\* Mutant: the ceiling does not depend on the credential.
maxSeriesPerRequest_Fixed(cfg) == 25

\* fullConfig.apiKey ? 50 : 25
maxSeriesPerRequest(cfg) == IF cfg.apiKey # "" THEN 50 ELSE 25

(***************************************************************************)
(* Cache                                                                   *)
(***************************************************************************)
\* seriesIds.sort(): ascending code-unit order, in place.
\* Mutant: the identifiers are not sorted.
SortIds_AsGiven(ids) == ids

SortIds(ids) == SortSeq(ids, LAMBDA a, b: a < b)

\* `${startYear || 'null'}`: undefined and 0 are both falsy.
KeyYear(y) == IF y = Undefined \/ y = 0 THEN "null" ELSE ToString(y)

getCacheKey(seriesIds, startYear, endYear) ==
  <<SortIds(seriesIds), KeyYear(startYear), KeyYear(endYear)>>

\* Mutant: the comparison is turned around.
isCacheValidAt_Inverted(t, entry, ttl) == t - entry.timestamp > ttl

isCacheValidAt(t, entry, ttl) == t - entry.timestamp < ttl

\* Mutant: an entry whose age is exactly ttl is still valid.
isCacheValid_Inclusive(entry, ttl) == now - entry.timestamp <= ttl

isCacheValid(entry, ttl) == isCacheValidAt(now, entry, ttl)

EmptyCache == [k \in {} |-> TRUE]

\* Map.prototype.set
\* Mutant: an existing entry is kept.
CacheSet_KeepsExisting(m, key, entry) ==
  IF key \in DOMAIN m
    THEN m
    ELSE [k \in DOMAIN m \cup {key} |-> IF k = key THEN entry ELSE m[k]]

CacheSet(m, key, entry) ==
  [k \in DOMAIN m \cup {key} |-> IF k = key THEN entry ELSE m[k]]

getCacheSize == Cardinality(DOMAIN cache)

\* Mutant: the cache is consulted whatever enableCache says.
CacheHit_IgnoresFlag(cfg, key) ==
  /\ key \in DOMAIN cache
  /\ isCacheValid(cache[key], cfg.cacheTTL)

\* The cache lookup at the head of fetchSeriesData.
CacheHit(cfg, key) ==
  /\ cfg.enableCache
  /\ key \in DOMAIN cache
  /\ isCacheValid(cache[key], cfg.cacheTTL)

(***************************************************************************)
(* Provider responses                                                      *)
(***************************************************************************)
Series(id) == [seriesID |-> id]

\* The provider answers with one series per requested id, in request order.
Echo(ids) == [k \in 1..Len(ids) |-> Series(ids[k])]

\* The series lists a successful envelope may carry: the requested series,
\* or, for a request of one identifier, a series nobody asked for.
SeriesLists(ids) ==
  {Echo(ids)} \cup (IF Len(ids) = 1 THEN {<<Series(OtherId)>>} ELSE {})

\* Results?: {series}: present with a series list, present without one, or
\* missing (the provider leaves them out only in answers to short
\* requests).
NoResults == [present |-> FALSE, listed |-> FALSE, series |-> <<>>]

NoSeriesList == [present |-> TRUE, listed |-> FALSE, series |-> <<>>]

ResultsOf(ids) ==
  {[present |-> TRUE, listed |-> TRUE, series |-> r] : r \in SeriesLists(ids)}
  \cup (IF Len(ids) <= 2 THEN {NoResults, NoSeriesList} ELSE {})

\* data.Results?.series || []
ResultsSeries(envelope) ==
  IF envelope.Results.present /\ envelope.Results.listed
    THEN envelope.Results.series
    ELSE <<>>

Envelopes(ids) ==
  {[status |-> "REQUEST_SUCCEEDED", message |-> <<>>, Results |-> r] :
      r \in ResultsOf(ids)}
  \cup
  {[status |-> "REQUEST_NOT_PROCESSED", message |-> m, Results |-> NoResults] :
      m \in {<<>>, <<"Invalid series ID", "Bad year">>}}

\* The body of a response that is never parsed.
NoBody == [status |-> "", message |-> <<>>, Results |-> NoResults]

\* The responses one fetch() may resolve with; a 2xx response carries an
\* envelope.  (A fetch() may also reject: see FetchRejects.)
Responses(ids) ==
  {[status |-> 200, statusText |-> "OK", body |-> e] : e \in Envelopes(ids)}
  \cup
  {[status |-> 429, statusText |-> "Too Many Requests", body |-> NoBody],
   [status |-> 500, statusText |-> "Internal Server Error", body |-> NoBody]}

\* No response received yet.
NoResponse == [status |-> 0, statusText |-> "", body |-> NoBody]

\* Response.ok
Ok(response) == response.status >= 200 /\ response.status <= 299

RECURSIVE Join(_, _)
\* Array.prototype.join
Join(strs, sep) ==
  IF Len(strs) = 0 THEN ""
  ELSE IF Len(strs) = 1 THEN strs[1]
  ELSE strs[1] \o sep \o Join(Tail(strs), sep)

RECURSIVE Pow2(_)
\* Math.pow(2, n)
Pow2(n) == IF n <= 0 THEN 1 ELSE 2 * Pow2(n - 1)

(***************************************************************************)
(* Errors                                                                  *)
(***************************************************************************)
NoError == [kind |-> "none", message |-> ""]

\* line 126: retries exhausted
TransientFailure(maxRetries, lastError) ==
  [kind |-> "TransientFailure",
   message |-> "BLS API request failed after " \o ToString(maxRetries)
               \o " attempts: "
               \o (IF lastError = "null" THEN "Unknown error" ELSE lastError)]

\* line 179: non-2xx status
ProviderHttpError(response) ==
  [kind |-> "ProviderHttpError",
   message |-> "BLS API error: " \o ToString(response.status) \o " "
               \o response.statusText]

\* Mutant: only the first message is reported.
ProviderApiError_FirstOnly(envelope) ==
  [kind |-> "ProviderApiError",
   message |-> "BLS API error: "
               \o (IF Len(envelope.message) = 0
                   THEN "Unknown BLS API error"
                   ELSE envelope.message[1])]

\* lines 185-186: envelope failure
ProviderApiError(envelope) ==
  [kind |-> "ProviderApiError",
   message |-> "BLS API error: "
               \o (IF Join(envelope.message, "; ") = ""
                   THEN "Unknown BLS API error"
                   ELSE Join(envelope.message, "; "))]

(***************************************************************************)
(* One logical call: its arguments, its position, its locals, and a log    *)
(* of what it did: the cache lookups it made, the request bodies it sent   *)
(* (one per exchange), the cache entries it stored, and, for the exchange  *)
(* in progress, the number of fetch() calls, how each of them settled and  *)
(* the backoff delays slept.                                               *)
(***************************************************************************)
Idle ==
  [ pc |-> "idle", op |-> "none", careerId |-> "",
    arg |-> <<>>, seriesIds |-> <<>>,
    startYear |-> Undefined, endYear |-> Undefined, config |-> NoOverrides,
    split |-> FALSE, maxPer |-> 0, i |-> 0,
    batch |-> <<>>, key |-> getCacheKey(<<>>, Undefined, Undefined),
    results |-> <<>>, batchResults |-> <<>>,
    attempt |-> 0, lastError |-> "null", response |-> NoResponse,
    result |-> <<>>, error |-> NoError,
    lookups |-> <<>>, sent |-> <<>>, stored |-> <<>>,
    fetches |-> 0, outcomes |-> <<>>, sleeps |-> <<>> ]

Min(a, b) == IF a <= b THEN a ELSE b

\* Mutant: the end index is inclusive.
Slice_EndInclusive(arr, from, to) ==
  SubSeq(arr, from + 1, Min(to + 1, Len(arr)))

\* Array.prototype.slice(from, to), zero-based, end exclusive.
Slice(arr, from, to) == SubSeq(arr, from + 1, Min(to, Len(arr)))

RECURSIVE Find(_, _)
\* Mutant: the first series is taken whatever its identifier.
Find_First(series, id) ==
  IF Len(series) = 0 THEN <<>> ELSE <<series[1]>>

\* series.find(s => s.seriesID === seriesId) || null; null is the empty
\* sequence, a series is the one-element sequence holding it.
Find(series, id) ==
  IF Len(series) = 0 THEN <<>>
  ELSE IF series[1].seriesID = id THEN <<series[1]>>
  ELSE Find(Tail(series), id)

\* lines 150-165: the request body of one exchange.
RequestBody(ids, startYear, endYear, cfg) ==
  [ seriesid |-> ids,
    startyear |-> IF startYear # Undefined THEN ToString(startYear) ELSE Absent,
    endyear |-> IF endYear # Undefined THEN ToString(endYear) ELSE Absent,
    registrationkey |-> IF cfg.apiKey # "" THEN cfg.apiKey ELSE Absent ]

\* Mutant: the batch loop swallows the error of a batch and moves on.
Throw_SkipsBatch(cr, err) ==
  IF cr.split
    THEN [cr EXCEPT !.pc = "next", !.batchResults = <<>>]
    ELSE [cr EXCEPT !.pc = "failed", !.error = err]

\* A thrown error reaches the caller: getSeries and getMultipleSeries do not
\* catch, so the call fails and its partial results are dropped.
Throw(cr, err) == [cr EXCEPT !.pc = "failed", !.error = err]

\* What the caller of getMultipleSeries gets: the series, or, from
\* getJobSpecificEconomicData, the indicators made of them.
Returned(cr, series) ==
  IF cr.op = "getJobSpecificEconomicData"
    THEN Indicators(series, getBlsMappingForCareer(cr.careerId))
    ELSE series

\* The value fetchSeriesData resolves with reaches its caller: getSeries
\* (line 222), the single-request return of getMultipleSeries (line 249),
\* or the pending await of the batch loop (line 256).
Resolve(cr, series) ==
  IF cr.op = "getSeries"
    THEN [cr EXCEPT !.pc = "done", !.result = Find(series, cr.arg[1])]
  ELSE IF ~cr.split
    THEN [cr EXCEPT !.pc = "done", !.result = Returned(cr, series)]
  ELSE [cr EXCEPT !.pc = "next", !.batchResults = series]

\* Mutant: the loop bound is off by one.
Attempt_OneMore(cr, cfg) ==
  IF cr.attempt <= cfg.maxRetries
    THEN [cr EXCEPT !.pc = "fetch", !.fetches = @ + 1]
    ELSE Throw(cr, TransientFailure(cfg.maxRetries, cr.lastError))

\* fetchWithRetry, one turn of the loop head (line 104): the next attempt
\* is issued while attempt < maxRetries, otherwise line 126 throws.
Attempt(cr, cfg) ==
  IF cr.attempt < cfg.maxRetries
    THEN [cr EXCEPT !.pc = "fetch", !.fetches = @ + 1]
    ELSE Throw(cr, TransientFailure(cfg.maxRetries, cr.lastError))

\* Mutant: a call whose key has an exchange pending in another call sends
\* no request of its own and waits.
Enter_JoinsInFlight(cr, ids) ==
  LET cfg == getConfig(cr.config)
      key == getCacheKey(ids, cr.startYear, cr.endYear)
      sorted == SortIds(ids)
      hit == CacheHit(cfg, key)
      joins == \E d \in Calls :
                 calls[d].pc \in {"fetch", "sleep"} /\ calls[d].key = key
      c1 == [cr EXCEPT
               !.batch = sorted,
               !.key = key,
               !.seriesIds = IF cr.op # "getSeries" /\ ~cr.split
                               THEN sorted ELSE @,
               !.lookups = Append(@, [key |-> key, hit |-> hit])]
      c2 == [c1 EXCEPT !.attempt = 0,
                       !.lastError = "null",
                       !.response = NoResponse,
                       !.fetches = 0,
                       !.outcomes = <<>>,
                       !.sleeps = <<>>]
  IN IF hit THEN Resolve(c1, cache[key].data)
     ELSE IF joins THEN [c2 EXCEPT !.pc = "sleep"]
     ELSE Attempt([c2 EXCEPT
                     !.sent = Append(@, RequestBody(sorted, cr.startYear,
                                                    cr.endYear, cfg))],
                  cfg)

\* Mutant: the key is built from a sorted copy, and the array passed in is
\* left as it was.
Enter_SortsCopy(cr, ids) ==
  LET cfg == getConfig(cr.config)
      key == getCacheKey(ids, cr.startYear, cr.endYear)
      sorted == SortIds(ids)
      hit == CacheHit(cfg, key)
      c1 == [cr EXCEPT
               !.batch = sorted,
               !.key = key,
               !.lookups = Append(@, [key |-> key, hit |-> hit])]
  IN IF hit
       THEN Resolve(c1, cache[key].data)
       ELSE Attempt([c1 EXCEPT
                       !.attempt = 0,
                       !.lastError = "null",
                       !.response = NoResponse,
                       !.fetches = 0,
                       !.outcomes = <<>>,
                       !.sleeps = <<>>,
                       !.sent = Append(@, RequestBody(sorted, cr.startYear,
                                                      cr.endYear, cfg))],
                    cfg)

\* fetchSeriesData from its entry to its first suspension (lines 138-176)
\* for the array ids: the key is built (sorting ids in place), the cache is
\* consulted, and on a miss the body is built and the first attempt issued.
Enter(cr, ids) ==
  LET cfg == getConfig(cr.config)
      key == getCacheKey(ids, cr.startYear, cr.endYear)
      sorted == SortIds(ids)
      hit == CacheHit(cfg, key)
      c1 == [cr EXCEPT
               !.batch = sorted,
               !.key = key,
               !.seriesIds = IF cr.op # "getSeries" /\ ~cr.split
                               THEN sorted ELSE @,
               !.lookups = Append(@, [key |-> key, hit |-> hit])]
  IN IF hit
       THEN Resolve(c1, cache[key].data)
       ELSE Attempt([c1 EXCEPT
                       !.attempt = 0,
                       !.lastError = "null",
                       !.response = NoResponse,
                       !.fetches = 0,
                       !.outcomes = <<>>,
                       !.sleeps = <<>>,
                       !.sent = Append(@, RequestBody(sorted, cr.startYear,
                                                      cr.endYear, cfg))],
                    cfg)

\* Mutant: the delay grows linearly with the attempt index.
Backoff_Linear(cr, cfg) ==
  [cr EXCEPT !.pc = "sleep",
             !.sleeps = Append(@, cfg.retryDelay * (cr.attempt + 1))]

\* Mutant: the final attempt fails without a sleep.
Backoff_SkipsLast(cr, cfg) ==
  IF cr.attempt + 1 >= cfg.maxRetries
    THEN Throw(cr, TransientFailure(cfg.maxRetries, cr.lastError))
    ELSE [cr EXCEPT !.pc = "sleep",
                    !.sleeps = Append(@, cfg.retryDelay * Pow2(cr.attempt))]

\* lines 110-112 and 120-122: the backoff delay of the current attempt.
Backoff(cr, cfg) ==
  [cr EXCEPT !.pc = "sleep",
             !.sleeps = Append(@, cfg.retryDelay * Pow2(cr.attempt))]

(***************************************************************************)
(* Initial state and actions                                               *)
(***************************************************************************)
InitOf(envs) ==
  /\ cache = EmptyCache
  /\ now = 0
  /\ env \in envs
  /\ calls = [c \in Calls |-> Idle]

\* A call starts when its slot is free and the earlier slots are taken; a
\* caller that awaits each call starts it when the earlier calls are over.
CanStart(c, slots, awaits) ==
  /\ c \in slots
  /\ calls[c].pc = "idle"
  /\ \A d \in Calls :
       d < c => /\ calls[d].pc # "idle"
                /\ awaits => calls[d].pc \in {"done", "failed"}

SameSet(a, b) == {a[k] : k \in DOMAIN a} = {b[k] : k \in DOMAIN b}

\* The requests a caller may make next: any of its pool, or, for a caller
\* that repeats its first call for as long as its calls succeed, those of
\* the pool that ask for the series of the first call in any order.
Offered(pool, repeats) ==
  IF repeats /\ calls[1].pc # "idle"
    THEN {r \in pool : /\ \A d \in Calls : calls[d].pc # "failed"
                       /\ Len(r.ids) = Len(calls[1].arg)
                       /\ SameSet(r.ids, calls[1].arg)}
    ELSE pool

Started(r) ==
  [Idle EXCEPT !.op = r.op, !.arg = r.ids, !.seriesIds = r.ids,
               !.startYear = r.startYear, !.endYear = r.endYear,
               !.config = r.config]

\* getSeries(seriesId, startYear, endYear, config), lines 215-223: up to
\* the first suspension of fetchSeriesData([seriesId], ...).
GetSeries(c, pool, slots, awaits, repeats) ==
  /\ CanStart(c, slots, awaits)
  /\ \E r \in Offered(pool, repeats) :
       /\ r.op = "getSeries"
       /\ calls' = [calls EXCEPT ![c] = Enter(Started(r), r.ids)]
  /\ UNCHANGED <<cache, now, env>>

\* getMultipleSeries(seriesIds, startYear, endYear, config), lines 238-256,
\* up to the first suspension.
GetMultipleSeries(c, pool, slots, awaits, repeats) ==
  /\ CanStart(c, slots, awaits)
  /\ \E r \in Offered(pool, repeats) :
       /\ r.op = "getMultipleSeries"
       /\ LET fullConfig == getConfig(r.config)
              m == maxSeriesPerRequest(fullConfig)
              cr == [Started(r) EXCEPT !.maxPer = m,
                                       !.split = ~(Len(r.ids) <= m)]
          IN calls' = [calls EXCEPT ![c] =
                         IF Len(r.ids) <= m
                           THEN Enter(cr, r.ids)
                           ELSE Enter(cr, Slice(r.ids, 0, m))]
  /\ UNCHANGED <<cache, now, env>>

\* getJobSpecificEconomicData(careerId), lines 18-34: the early returns,
\* or getMultipleSeries(wantedSeries, currentYear - 5, currentYear) up to
\* its first suspension.
GetJobSpecificEconomicData(c, slots, awaits) ==
  /\ CanStart(c, slots, awaits)
  /\ \E careerId \in CareerIds :
       LET config == getBLSConfig
           mapping == getBlsMappingForCareer(careerId)
           wanted == wantedSeries(mapping)
           fullConfig == getConfig(NoOverrides)
           m == maxSeriesPerRequest(fullConfig)
           cr0 == [Idle EXCEPT !.op = "getJobSpecificEconomicData",
                               !.careerId = careerId]
           cr == [cr0 EXCEPT !.arg = wanted, !.seriesIds = wanted,
                             !.startYear = currentYear - 5,
                             !.endYear = currentYear,
                             !.maxPer = m,
                             !.split = ~(Len(wanted) <= m)]
       IN calls' = [calls EXCEPT ![c] =
            IF ~config.enabled \/ mapping = NoMapping \/ Len(wanted) = 0
              THEN [cr0 EXCEPT !.pc = "done", !.result = <<>>]
            ELSE IF Len(wanted) <= m
              THEN Enter(cr, wanted)
              ELSE Enter(cr, Slice(wanted, 0, m))]
  /\ UNCHANGED <<cache, now, env>>

\* Mutant: the loop does not await the batch: it moves on while the
\* exchange of the batch is backing off.
NextBatch_NotAwaited(c) ==
  /\ calls[c].split
  /\ calls[c].pc \in {"next", "sleep"}
  /\ LET cr == calls[c]
         i == cr.i + cr.maxPer
         c1 == [cr EXCEPT !.results = @ \o cr.batchResults,
                          !.batchResults = <<>>,
                          !.i = i]
     IN calls' = [calls EXCEPT ![c] =
                    IF i < Len(cr.seriesIds)
                      THEN Enter(c1, Slice(cr.seriesIds, i, i + cr.maxPer))
                      ELSE [c1 EXCEPT !.pc = "done",
                                      !.result = Returned(c1, c1.results)]]
  /\ UNCHANGED <<cache, now, env>>

\* The batch loop of getMultipleSeries resumes (lines 254-260): the awaited
\* batch results are appended, and the next batch is entered or the
\* results are returned.
NextBatch(c) ==
  /\ calls[c].pc = "next"
  /\ LET cr == calls[c]
         i == cr.i + cr.maxPer
         c1 == [cr EXCEPT !.results = @ \o cr.batchResults,
                          !.batchResults = <<>>,
                          !.i = i]
     IN calls' = [calls EXCEPT ![c] =
                    IF i < Len(cr.seriesIds)
                      THEN Enter(c1, Slice(cr.seriesIds, i, i + cr.maxPer))
                      ELSE [c1 EXCEPT !.pc = "done",
                                      !.result = Returned(c1, c1.results)]]
  /\ UNCHANGED <<cache, now, env>>

\* fetch() rejects (lines 118-122): the error is remembered and the call
\* sleeps.
FetchRejects(c) ==
  /\ calls[c].pc = "fetch"
  /\ calls' = [calls EXCEPT ![c] =
                Backoff([calls[c] EXCEPT
                           !.lastError = "Network error",
                           !.outcomes = Append(@, "rejected")],
                        getConfig(calls[c].config))]
  /\ UNCHANGED <<cache, now, env>>

\* Mutant: a failed exchange evicts the entry of its key.
Interpret_EvictsOnError(cr, cfg, response) ==
  IF ~Ok(response) \/ response.body.status # "REQUEST_SUCCEEDED"
    THEN <<Throw(cr, IF ~Ok(response)
                       THEN ProviderHttpError(response)
                       ELSE ProviderApiError(response.body)),
           [key \in DOMAIN cache \ {cr.key} |-> cache[key]]>>
  ELSE
    LET series == ResultsSeries(response.body)
        entry == [data |-> series, timestamp |-> now]
    IN IF cfg.enableCache
         THEN <<Resolve([cr EXCEPT !.stored =
                           Append(@, [key |-> cr.key, entry |-> entry])],
                        series),
                CacheSet(cache, cr.key, entry)>>
         ELSE <<Resolve(cr, series), cache>>

\* Mutant: an empty series list is returned but not stored.
Interpret_SkipsEmpty(cr, cfg, response) ==
  IF ~Ok(response)
    THEN <<Throw(cr, ProviderHttpError(response)), cache>>
  ELSE IF response.body.status # "REQUEST_SUCCEEDED"
    THEN <<Throw(cr, ProviderApiError(response.body)), cache>>
  ELSE
    LET series == ResultsSeries(response.body)
        entry == [data |-> series, timestamp |-> now]
    IN IF cfg.enableCache /\ series # <<>>
         THEN <<Resolve([cr EXCEPT !.stored =
                           Append(@, [key |-> cr.key, entry |-> entry])],
                        series),
                CacheSet(cache, cr.key, entry)>>
         ELSE <<Resolve(cr, series), cache>>

\* Mutant: the series are stored before the envelope status is checked.
Interpret_StoreFirst(cr, cfg, response) ==
  IF ~Ok(response)
    THEN <<Throw(cr, ProviderHttpError(response)), cache>>
  ELSE
    LET series == ResultsSeries(response.body)
        entry == [data |-> series, timestamp |-> now]
        c1 == IF cfg.enableCache
                THEN [cr EXCEPT !.stored =
                        Append(@, [key |-> cr.key, entry |-> entry])]
                ELSE cr
        m1 == IF cfg.enableCache THEN CacheSet(cache, cr.key, entry) ELSE cache
    IN IF response.body.status # "REQUEST_SUCCEEDED"
         THEN <<Throw(c1, ProviderApiError(response.body)), m1>>
         ELSE <<Resolve(c1, series), m1>>

\* What fetchSeriesData does with a response that is not a 429 (lines
\* 178-199): the pair of the call's next record and the next cache.
Interpret(cr, cfg, response) ==
  IF ~Ok(response)
    THEN <<Throw(cr, ProviderHttpError(response)), cache>>
  ELSE IF response.body.status # "REQUEST_SUCCEEDED"
    THEN <<Throw(cr, ProviderApiError(response.body)), cache>>
  ELSE
    LET series == ResultsSeries(response.body)
        entry == [data |-> series, timestamp |-> now]
    IN IF cfg.enableCache
         THEN <<Resolve([cr EXCEPT !.stored =
                           Append(@, [key |-> cr.key, entry |-> entry])],
                        series),
                CacheSet(cache, cr.key, entry)>>
         ELSE <<Resolve(cr, series), cache>>

\* Mutant: every response that is not ok is retried, not only a 429.
FetchResolves_RetriesErrors(c) ==
  /\ calls[c].pc = "fetch"
  /\ \E response \in Responses(calls[c].batch) :
       LET cr == [calls[c] EXCEPT
                    !.response = response,
                    !.outcomes = Append(@, ToString(response.status))]
           cfg == getConfig(cr.config)
           next == Interpret(cr, cfg, response)
       IN IF ~Ok(response)
            THEN /\ calls' = [calls EXCEPT ![c] = Backoff(cr, cfg)]
                 /\ cache' = cache
            ELSE /\ calls' = [calls EXCEPT ![c] = next[1]]
                 /\ cache' = next[2]
  /\ UNCHANGED <<now, env>>

\* fetch() resolves with a response (lines 106-117, then 176-199).
FetchResolves(c) ==
  /\ calls[c].pc = "fetch"
  /\ \E response \in Responses(calls[c].batch) :
       LET cr == [calls[c] EXCEPT
                    !.response = response,
                    !.outcomes = Append(@, ToString(response.status))]
           cfg == getConfig(cr.config)
           next == Interpret(cr, cfg, response)
       IN IF response.status = 429
            THEN /\ calls' = [calls EXCEPT ![c] = Backoff(cr, cfg)]
                 /\ cache' = cache
            ELSE /\ calls' = [calls EXCEPT ![c] = next[1]]
                 /\ cache' = next[2]
  /\ UNCHANGED <<now, env>>

\* Mutant: the loop counter is not incremented after the first sleep.
SleepEnds_CountsLate(c) ==
  /\ calls[c].pc = "sleep"
  /\ calls' = [calls EXCEPT ![c] =
                Attempt([calls[c] EXCEPT !.attempt = Len(calls[c].sleeps) - 1],
                        getConfig(calls[c].config))]
  /\ UNCHANGED <<cache, now, env>>

\* Mutant: the loop counter is incremented twice.
SleepEnds_CountsTwice(c) ==
  /\ calls[c].pc = "sleep"
  /\ calls' = [calls EXCEPT ![c] =
                Attempt([calls[c] EXCEPT !.attempt = @ + 2],
                        getConfig(calls[c].config))]
  /\ UNCHANGED <<cache, now, env>>

\* The backoff sleep ends (lines 112-113, 122-124): the loop counter is
\* incremented and the loop head is evaluated again.
SleepEnds(c) ==
  /\ calls[c].pc = "sleep"
  /\ calls' = [calls EXCEPT ![c] =
                Attempt([calls[c] EXCEPT !.attempt = @ + 1],
                        getConfig(calls[c].config))]
  /\ UNCHANGED <<cache, now, env>>

\* Mutant: clearing the cache also stops the calls in flight from storing.
ClearCache_DetachesInFlight ==
  /\ cache' = EmptyCache
  /\ calls' = [c \in Calls |->
                 IF calls[c].pc \in {"fetch", "sleep"}
                   THEN [calls[c] EXCEPT
                           !.config = Spread(@, [enableCache |-> FALSE])]
                   ELSE calls[c]]
  /\ UNCHANGED <<now, env>>

\* clearCache(), lines 266-268.
\* Mutant: only one entry is dropped.
ClearCache_DropsOne ==
  /\ cache' = IF cache = EmptyCache
               THEN cache
               ELSE LET gone == CHOOSE key \in DOMAIN cache : TRUE
                    IN [key \in DOMAIN cache \ {gone} |-> cache[key]]
  /\ UNCHANGED <<now, env, calls>>

ClearCache ==
  /\ cache' = EmptyCache
  /\ UNCHANGED <<now, env, calls>>

\* Date.now() advances.
Tick ==
  /\ now < MaxTime
  /\ now' = now + 1
  /\ UNCHANGED <<cache, env, calls>>

\* The steps of the program for a caller that draws its calls from pool,
\* makes one call per slot, and either awaits each call before the next or
\* lets them run together.
NextOf(pool, slots, awaits, repeats) ==
  \/ \E c \in Calls : GetSeries(c, pool, slots, awaits, repeats)
  \/ \E c \in Calls : GetMultipleSeries(c, pool, slots, awaits, repeats)
  \/ \E c \in Calls : NextBatch(c)
  \/ \E c \in Calls : FetchRejects(c)
  \/ \E c \in Calls : FetchResolves(c)
  \/ \E c \in Calls : SleepEnds(c)
  \/ ClearCache
  \/ Tick

Init == InitOf({NoEnv})

InitRetry == InitOf(Envs)

InitBatch == InitOf({NoEnv, KeyEnv})

Next == NextOf(RacingRequests, Pair, FALSE, FALSE)

NextRetry == NextOf(RetryRequests, {1}, TRUE, FALSE)

NextBatches == NextOf(BatchRequests, Pair, TRUE, TRUE)

NextRepeat == NextOf(RepeatRequests, Calls, TRUE, TRUE)

InitCareer == InitOf(CareerEnvs)

\* The steps of the program for a caller of the enrichment service that
\* awaits each of its two calls.
NextCareer ==
  \/ \E c \in Calls : GetJobSpecificEconomicData(c, Pair, TRUE)
  \/ \E c \in Calls : FetchRejects(c)
  \/ \E c \in Calls : FetchResolves(c)
  \/ \E c \in Calls : SleepEnds(c)
  \/ ClearCache
  \/ Tick

\* The steps of the program for a caller that lets three getSeries calls
\* run together.
NextClear ==
  \/ \E c \in Calls : GetSeries(c, ClearRequests, Calls, FALSE, FALSE)
  \/ \E c \in Calls : FetchRejects(c)
  \/ \E c \in Calls : FetchResolves(c)
  \/ \E c \in Calls : SleepEnds(c)
  \/ ClearCache
  \/ Tick

\* The steps of the program for a caller that awaits each of its two
\* getMultipleSeries calls within one millisecond.
NextLive ==
  \/ \E c \in Calls : GetMultipleSeries(c, LiveRequests, Pair, TRUE, TRUE)
  \/ \E c \in Calls : NextBatch(c)
  \/ \E c \in Calls : FetchRejects(c)
  \/ \E c \in Calls : FetchResolves(c)
  \/ \E c \in Calls : SleepEnds(c)
  \/ ClearCache

\* Every fetch() settles, every sleep ends, and the event loop resumes the
\* continuation of every settled await.
Progress ==
  \A c \in Pair :
    /\ WF_vars(FetchRejects(c) \/ FetchResolves(c))
    /\ WF_vars(SleepEnds(c))
    /\ WF_vars(NextBatch(c))

\* Two calls in flight together.
Spec == Init /\ [][Next]_vars

\* One call, under every override and environment.
SpecRetry == InitRetry /\ [][NextRetry]_vars

\* Two calls for the same series, one after the other, over the long lists.
SpecBatch == InitBatch /\ [][NextBatches]_vars

\* Three calls, one after the other.
SpecRepeat == Init /\ [][NextRepeat]_vars

\* Two calls of the enrichment service, one after the other.
SpecCareer == InitCareer /\ [][NextCareer]_vars

\* Three single-series calls in flight together.
SpecClear == Init /\ [][NextClear]_vars

\* Two getMultipleSeries calls, one after the other, whose fetches and
\* sleeps complete.
SpecLive == Init /\ [][NextLive]_vars /\ Progress

(***************************************************************************)
(* Vocabulary of the properties                                            *)
(***************************************************************************)
\* The batch ceiling in effect for a call record.
CeilingOf(cr) == IF getConfig(cr.config).apiKey = "" THEN 25 ELSE 50

\* Whether getMultipleSeries splits the request of a call record.
IsSplit(cr) == cr.op = "getMultipleSeries" /\ Len(cr.arg) > CeilingOf(cr)

\* The number of batches of a call record: one request when it is not
\* split, otherwise ceil(n / m).
BatchCount(cr) ==
  IF IsSplit(cr)
    THEN (Len(cr.arg) + CeilingOf(cr) - 1) \div CeilingOf(cr)
    ELSE 1

\* Batch j (from 1) of a call record: input positions (j-1)*m .. j*m - 1.
BatchAt(cr, j) ==
  IF IsSplit(cr)
    THEN [k \in 1..Min(CeilingOf(cr), Len(cr.arg) - (j - 1) * CeilingOf(cr))
            |-> cr.arg[(j - 1) * CeilingOf(cr) + k]]
    ELSE cr.arg

\* The cache key under which batch j of a call record is looked up.
KeyAt(cr, j) ==
  <<SortIds(BatchAt(cr, j)), KeyYear(cr.startYear), KeyYear(cr.endYear)>>

\* Call c makes a cache lookup in this step.
LooksUp(c) == Len(calls'[c].lookups) = Len(calls[c].lookups) + 1

\* An entry that is younger than ttl at this moment.
Younger(entry, ttl) == now - entry.timestamp < ttl

\* What a call hands to its caller when fetchSeriesData yields series.
Handed(cr, series) ==
  IF cr.op = "getSeries"
    THEN (IF \E k \in DOMAIN series : series[k].seriesID = cr.arg[1]
            THEN <<Series(cr.arg[1])>> ELSE <<>>)
    ELSE series

(***************************************************************************)
(* C1: with caching enabled, a lookup that finds an entry younger than     *)
(* cacheTTL issues no exchange and yields the entry's series; so a repeat  *)
(* of a completed single-request call, made while the entry written by the *)
(* first call is younger than cacheTTL, returns the same result and the    *)
(* two calls issue exactly one exchange in total.                          *)
(***************************************************************************)
C1_ServedByLookup(c) ==
  LET cr == calls'[c]
      key == KeyAt(cr, Len(cr.lookups))
      cfg == getConfig(cr.config)
  IN (/\ LooksUp(c)
      /\ cfg.enableCache
      /\ key \in DOMAIN cache
      /\ Younger(cache[key], cfg.cacheTTL))
     => /\ cr.sent = calls[c].sent
        /\ cr.pc \notin {"fetch", "sleep", "failed"}
        /\ cache' = cache
        /\ IF IsSplit(cr)
             THEN cr.pc = "next" /\ cr.batchResults = cache[key].data
             ELSE cr.pc = "done" /\ cr.result = Handed(cr, cache[key].data)

C1_RepeatIsServed ==
  LET first == calls[1]
      again == calls'[2]
      key == KeyAt(first, 1)
  IN (/\ first.pc = "done" /\ ~IsSplit(first) /\ Len(first.sent) = 1
      /\ calls[2].pc = "idle" /\ again.pc # "idle"
      /\ again.op = first.op /\ again.arg = first.arg
      /\ again.startYear = first.startYear /\ again.endYear = first.endYear
      /\ getConfig(first.config).enableCache
      /\ getConfig(again.config).enableCache
      /\ key \in DOMAIN cache
      /\ Len(first.stored) = 1 /\ cache[key] = first.stored[1].entry
      /\ Younger(cache[key], getConfig(again.config).cacheTTL))
     => /\ again.pc = "done"
        /\ again.result = first.result
        /\ Len(first.sent) + Len(again.sent) = 1

C1_RepeatServedFromCache ==
  [][(\A c \in Calls : C1_ServedByLookup(c)) /\ C1_RepeatIsServed]_vars

\* A getSeries call was answered with its series, and its repeat returned
\* the same series without an exchange.
C1_Witness ==
  /\ calls[1].pc = "done" /\ calls[2].pc = "done"
  /\ calls[1].op = "getSeries" /\ calls[2].op = "getSeries"
  /\ calls[1].arg = calls[2].arg
  /\ Len(calls[1].sent) = 1 /\ Len(calls[2].sent) = 0
  /\ calls[2].lookups = <<[key |-> KeyAt(calls[1], 1), hit |-> TRUE]>>
  /\ calls[1].result = <<Series(1)>>
  /\ calls[2].result = calls[1].result

(***************************************************************************)
(* C2: the cache never stores partial results.  As claimed: a call that    *)
(* failed has left no entry in the cache (C2_NoPartialResults).  As        *)
(* amended: every entry in the cache was stored by one exchange that fully *)
(* succeeded for the entry's own key - the whole request when it is not    *)
(* split, one batch when it is - and holds a series list of that exchange; *)
(* nothing is stored with caching disabled.                                *)
(***************************************************************************)
\* Call c stored the entry that the cache holds under key.
StoredBy(c, key) ==
  \E j \in DOMAIN calls[c].stored :
    calls[c].stored[j] = [key |-> key, entry |-> cache[key]]

ResolvedBatches(cr) ==
  IF cr.pc \in {"done", "next"} THEN Len(cr.lookups) ELSE Len(cr.lookups) - 1

\* The series lists a successful exchange for the ids of a key may yield.
Payloads(key) == {Echo(key[1]), <<Series(OtherId)>>, <<>>}

LastOutcome(cr) == cr.outcomes[Len(cr.outcomes)]

Retryable == {"rejected", "429"}

\* Every attempt of the current exchange so far ended in a retryable
\* outcome.
AllRetryable(cr) == \A k \in DOMAIN cr.outcomes : cr.outcomes[k] \in Retryable

(***************************************************************************)
(* C3: with maxRetries = N >= 1, an exchange whose attempts all end in a   *)
(* retryable outcome fails with the transient-failure error after exactly  *)
(* N fetch attempts: never more than N attempts are made, the error is     *)
(* raised only after N retryable outcomes, and after N retryable outcomes  *)
(* nothing but that error follows.                                         *)
(***************************************************************************)
C3_FailsAfterExactlyMaxRetries ==
  \A c \in Calls :
    LET cr == calls[c]
        N == getConfig(cr.config).maxRetries
    IN /\ cr.fetches <= N
       /\ cr.error.kind = "TransientFailure"
            => /\ cr.pc = "failed"
               /\ cr.fetches = N
               /\ Len(cr.outcomes) = N
               /\ AllRetryable(cr)
               /\ cr.error.message \in
                    {"BLS API request failed after " \o ToString(N)
                       \o " attempts: " \o cause :
                     cause \in {"Network error", "Unknown error"}}
       /\ (Len(cr.outcomes) = N /\ AllRetryable(cr))
            => /\ cr.pc \in {"sleep", "failed"}
               /\ cr.pc = "failed" => cr.error.kind = "TransientFailure"

\* getSeries with maxRetries = 2 failed after two rejected attempts.
C3_Witness ==
  /\ calls[1].op = "getSeries"
  /\ getConfig(calls[1].config).maxRetries = 2
  /\ calls[1].pc = "failed"
  /\ calls[1].error.kind = "TransientFailure"
  /\ calls[1].outcomes = <<"rejected", "rejected">>
  /\ calls[1].fetches = 2

(***************************************************************************)
(* C4: when k < maxRetries attempts ended in a retryable outcome, attempt  *)
(* k+1 is made, and when it returns a response that is not a 429, exactly  *)
(* k+1 attempts have been made and the outcome of the exchange is the one  *)
(* derived from that response.                                             *)
(***************************************************************************)
C4_NextAttemptIsMade(c) ==
  (/\ calls[c].pc = "sleep"
   /\ Len(calls[c].outcomes) < getConfig(calls[c].config).maxRetries
   /\ calls'[c] # calls[c])
  => /\ calls'[c].pc = "fetch"
     /\ calls'[c].fetches = calls[c].fetches + 1

C4_ResponseDecides(c) ==
  LET cr == calls'[c]
      r == cr.response
  IN (/\ calls[c].pc = "fetch"
      /\ Len(cr.outcomes) = Len(calls[c].outcomes) + 1
      /\ LastOutcome(cr) \notin Retryable)
     => /\ cr.fetches = Len(calls[c].sleeps) + 1
        /\ cr.fetches = calls[c].fetches
        /\ cr.sleeps = calls[c].sleeps
        /\ IF r.status = 200 /\ r.body.status = "REQUEST_SUCCEEDED"
             THEN IF IsSplit(cr)
                    THEN /\ cr.pc = "next"
                         /\ cr.batchResults = ResultsSeries(r.body)
                    ELSE /\ cr.pc = "done"
                         /\ cr.result = Handed(cr, ResultsSeries(r.body))
             ELSE /\ cr.pc = "failed"
                  /\ cr.error.kind
                       = (IF r.status = 200 THEN "ProviderApiError"
                                            ELSE "ProviderHttpError")

C4_RetryThenResponse ==
  [][\A c \in Calls : C4_NextAttemptIsMade(c) /\ C4_ResponseDecides(c)]_vars

\* getSeries was throttled once and returned the series of the second
\* attempt.
C4_Witness ==
  /\ calls[1].op = "getSeries"
  /\ calls[1].pc = "done"
  /\ calls[1].outcomes = <<"429", "200">>
  /\ calls[1].fetches = 2
  /\ calls[1].result = <<Series(1)>>

(***************************************************************************)
(* C5: an entry older than cacheTTL is a miss.  A lookup that finds an     *)
(* entry older than cacheTTL issues an exchange; the successful exchange   *)
(* replaces the entry of its key with the new series and the current time; *)
(* and a further repeat, made while the replaced entry is younger than     *)
(* cacheTTL, is served from it without an exchange.                        *)
(***************************************************************************)
C5_StaleIsMiss(c) ==
  LET cr == calls'[c]
      key == KeyAt(cr, Len(cr.lookups))
      cfg == getConfig(cr.config)
  IN (/\ LooksUp(c)
      /\ cfg.enableCache
      /\ key \in DOMAIN cache
      /\ now - cache[key].timestamp > cfg.cacheTTL)
     => /\ cr.pc = "fetch"
        /\ Len(cr.sent) = Len(calls[c].sent) + 1
        /\ cr.lookups[Len(cr.lookups)] = [key |-> key, hit |-> FALSE]

C5_SuccessReplaces(c) ==
  LET cr == calls'[c]
      key == KeyAt(cr, Len(cr.lookups))
      cfg == getConfig(cr.config)
  IN (/\ calls[c].pc = "fetch"
      /\ cr.pc \in {"done", "next"}
      /\ cfg.enableCache)
     => /\ key \in DOMAIN cache'
        /\ cache'[key] = [data |-> ResultsSeries(cr.response.body),
                          timestamp |-> now]
        /\ \A other \in DOMAIN cache' \ {key} :
             other \in DOMAIN cache /\ cache'[other] = cache[other]

C5_FurtherRepeatIsServed ==
  LET second == calls[2]
      third == calls'[3]
      key == KeyAt(second, 1)
  IN (/\ calls[1].pc = "done" /\ second.pc = "done" /\ ~IsSplit(second)
      /\ Len(calls[1].stored) = 1 /\ Len(second.stored) = 1
      /\ calls[1].stored[1].key = key
      /\ calls[3].pc = "idle" /\ third.pc # "idle"
      /\ third.op = second.op /\ third.arg = second.arg
      /\ third.startYear = second.startYear
      /\ third.endYear = second.endYear
      /\ getConfig(third.config).enableCache
      /\ key \in DOMAIN cache
      /\ cache[key] = second.stored[1].entry
      /\ Younger(cache[key], getConfig(third.config).cacheTTL))
     => /\ third.pc = "done"
        /\ Len(third.sent) = 0
        /\ third.result = second.result

C5_ExpiredEntryIsRefetched ==
  [][/\ \A c \in Calls : C5_StaleIsMiss(c) /\ C5_SuccessReplaces(c)
     /\ C5_FurtherRepeatIsServed]_vars

\* The first call cached its series at time 0; the second, two
\* milliseconds later under a cacheTTL of one, missed, fetched a different
\* result and replaced the entry; the third was served the new result.
C5_Witness ==
  /\ \A c \in Calls : calls[c].pc = "done" /\ calls[c].op = "getSeries"
  /\ calls[1].stored[1].entry = [data |-> <<Series(1)>>, timestamp |-> 0]
  /\ getConfig(calls[2].config).cacheTTL = 1
  /\ calls[2].lookups = <<[key |-> KeyAt(calls[1], 1), hit |-> FALSE]>>
  /\ Len(calls[2].sent) = 1
  /\ calls[2].stored[1].entry
       = [data |-> <<Series(OtherId)>>, timestamp |-> 2]
  /\ cache[KeyAt(calls[1], 1)] = calls[2].stored[1].entry
  /\ calls[3].lookups = <<[key |-> KeyAt(calls[1], 1), hit |-> TRUE]>>
  /\ Len(calls[3].sent) = 0
  /\ calls[1].result = <<Series(1)>>
  /\ calls[2].result = <<>>
  /\ calls[3].result = calls[2].result

(***************************************************************************)
(* C6: clearCache() empties the cache, so that getCacheSize() is 0 right   *)
(* after it, and a call that looks up an empty cache - such as the repeat  *)
(* of a cached call after clearCache() with no other call in flight -      *)
(* issues an exchange.                                                     *)
(***************************************************************************)
C6_ClearEmpties ==
  (calls' = calls /\ now' = now /\ cache' # cache)
  => /\ cache' = EmptyCache
     /\ getCacheSize' = 0

C6_EmptyCacheIsMiss(c) ==
  LET cr == calls'[c]
  IN (LooksUp(c) /\ getCacheSize = 0)
     => /\ cr.pc = "fetch"
        /\ Len(cr.sent) = Len(calls[c].sent) + 1
        /\ ~cr.lookups[Len(cr.lookups)].hit

C6_ClearCacheForcesRefetch ==
  [][C6_ClearEmpties /\ \A c \in Calls : C6_EmptyCacheIsMiss(c)]_vars

\* The first call cached its series; the cache was then cleared, and the
\* repeat, made while that entry would still have been young enough,
\* issued an exchange.
C6_Witness ==
  /\ calls[1].pc = "done" /\ calls[1].op = "getSeries"
  /\ Len(calls[1].stored) = 1
  /\ calls[2].op = "getSeries" /\ calls[2].arg = calls[1].arg
  /\ calls[2].startYear = calls[1].startYear
  /\ calls[2].endYear = calls[1].endYear
  /\ getConfig(calls[2].config).enableCache
  /\ Younger(calls[1].stored[1].entry, getConfig(calls[2].config).cacheTTL)
  /\ calls[2].pc = "fetch"
  /\ calls[2].lookups = <<[key |-> KeyAt(calls[1], 1), hit |-> FALSE]>>
  /\ Len(calls[2].sent) = 1
  /\ calls[3].pc = "idle"
  /\ getCacheSize = 0

(***************************************************************************)
(* C7: cache key canonicalization.  As claimed: a getMultipleSeries        *)
(* request whose list is a permutation of the list of an earlier,          *)
(* successful request with the same year bounds, made while the entries    *)
(* the earlier request wrote are in the cache and younger than cacheTTL,   *)
(* issues no exchange (C7_PermutationIssuesNoExchange).  As amended: it    *)
(* does when both requests fit in one batch: the later request hits the    *)
(* entry the earlier one wrote and returns its series.                     *)
(***************************************************************************)
IsPermutation(a, b) ==
  /\ Len(a) = Len(b)
  /\ \A x \in {a[k] : k \in DOMAIN a} \cup {b[k] : k \in DOMAIN b} :
       Cardinality({k \in DOMAIN a : a[k] = x})
         = Cardinality({k \in DOMAIN b : b[k] = x})

\* Call 2 starts in this step as a request for a permutation of the list
\* of call 1, which succeeded with caching enabled and whose entries are
\* all in the cache and younger than the cacheTTL of call 2.
C7_PermutedRepeatStarts ==
  LET first == calls[1]
      again == calls'[2]
  IN /\ first.pc = "done" /\ first.op = "getMultipleSeries"
     /\ calls[2].pc = "idle" /\ again.pc # "idle"
     /\ again.op = "getMultipleSeries"
     /\ again.startYear = first.startYear
     /\ again.endYear = first.endYear
     /\ getConfig(first.config).enableCache
     /\ getConfig(again.config).enableCache
     /\ first.stored # <<>>
     /\ \A j \in DOMAIN first.stored :
          /\ first.stored[j].key \in DOMAIN cache
          /\ cache[first.stored[j].key] = first.stored[j].entry
          /\ Younger(first.stored[j].entry, getConfig(again.config).cacheTTL)
     /\ IsPermutation(again.arg, first.arg)

Misses(cr) == {j \in DOMAIN cr.lookups : ~cr.lookups[j].hit}

RECURSIVE ConcatData(_)
ConcatData(stored) ==
  IF stored = <<>> THEN <<>>
  ELSE stored[1].entry.data \o ConcatData(Tail(stored))

C8_BatchIsLookedUp(c) ==
  LET cr == calls'[c]
      j == Len(cr.lookups)
      ids == SortIds(BatchAt(cr, j))
  IN (LooksUp(c) /\ cr.op = "getMultipleSeries" /\ Len(cr.arg) >= 1)
     => /\ j <= BatchCount(cr)
        /\ Len(ids) <= CeilingOf(cr)
        /\ cr.lookups[j].key[1] = ids
        /\ IF cr.lookups[j].hit
             THEN cr.sent = calls[c].sent
             ELSE /\ Len(cr.sent) = Len(calls[c].sent) + 1
                  /\ cr.sent[Len(cr.sent)].seriesid = ids
                  /\ SubSeq(cr.sent, 1, Len(calls[c].sent)) = calls[c].sent

C8_BatchResultIsAppended(c) ==
  LET cr == calls'[c]
  IN (calls[c].pc = "next" /\ cr # calls[c] /\ Len(cr.arg) >= 1)
     => /\ cr.results = calls[c].results \o calls[c].batchResults
        /\ IF Len(calls[c].lookups) = BatchCount(cr)
             THEN cr.pc = "done" /\ cr.result = cr.results
             ELSE LooksUp(c)

C8_ReturnsAfterAllBatches(c) ==
  LET cr == calls'[c]
  IN (/\ calls[c].pc # "done" /\ cr.pc = "done"
      /\ cr.op = "getMultipleSeries" /\ Len(cr.arg) >= 1)
     => /\ Len(cr.lookups) = BatchCount(cr)
        /\ Len(cr.sent) = Cardinality(Misses(cr))
        /\ Misses(cr) = DOMAIN cr.lookups => Len(cr.sent) = BatchCount(cr)
        /\ (Misses(cr) = DOMAIN cr.lookups /\ getConfig(cr.config).enableCache)
             => cr.result = ConcatData(cr.stored)

C9_EnvelopeFailureFails ==
  \A c \in Calls :
    LET cr == calls[c]
        envelope == cr.response.body
    IN (/\ cr.outcomes # <<>>
        /\ LastOutcome(cr) = "200"
        /\ envelope.status # "REQUEST_SUCCEEDED")
       => /\ cr.pc = "failed"
          /\ cr.error.kind = "ProviderApiError"
          /\ envelope.message = <<"Invalid series ID", "Bad year">>
               => cr.error.message
                    = "BLS API error: Invalid series ID; Bad year"
          /\ envelope.message = <<>>
               => cr.error.message = "BLS API error: Unknown BLS API error"
          /\ cr.fetches = Len(cr.outcomes)
          /\ cr.sleeps = <<>> => cr.fetches = 1
          /\ cr.result = <<>>
          /\ \A j \in DOMAIN cr.stored :
               cr.stored[j].key # cr.lookups[Len(cr.lookups)].key

\* getSeries failed on its first response, a 200 whose envelope reports
\* two messages.
C9_Witness ==
  /\ calls[1].op = "getSeries"
  /\ calls[1].pc = "failed"
  /\ calls[1].outcomes = <<"200">>
  /\ calls[1].response.body.status = "REQUEST_NOT_PROCESSED"
  /\ calls[1].response.body.message = <<"Invalid series ID", "Bad year">>
  /\ calls[1].error.message = "BLS API error: Invalid series ID; Bad year"
  /\ calls[1].fetches = 1

(***************************************************************************)
(* C10: a response whose status is not 429 ends the exchange at that       *)
(* attempt: no further attempt is made and no transient failure is         *)
(* raised.  When the status is 500 the call fails with the provider-HTTP   *)
(* error that carries the status and the status text, after exactly one    *)
(* attempt when it is the first response.                                  *)
(***************************************************************************)
C10_OtherStatusIsFinal ==
  \A c \in Calls :
    LET cr == calls[c]
    IN /\ (cr.outcomes # <<>> /\ LastOutcome(cr) \notin Retryable)
            => /\ cr.pc \in {"done", "next", "failed"}
               /\ cr.fetches = Len(cr.outcomes)
               /\ Len(cr.sleeps) = Len(cr.outcomes) - 1
               /\ cr.error.kind # "TransientFailure"
       /\ (cr.outcomes # <<>> /\ LastOutcome(cr) = "500")
            => /\ cr.pc = "failed"
               /\ cr.error
                    = [kind |-> "ProviderHttpError",
                       message |-> "BLS API error: 500 Internal Server Error"]
               /\ cr.result = <<>>
       /\ cr.outcomes = <<"500">> => cr.fetches = 1

\* getSeries failed on its first response, a 500.
C10_Witness ==
  /\ calls[1].op = "getSeries"
  /\ calls[1].pc = "failed"
  /\ calls[1].outcomes = <<"500">>
  /\ calls[1].fetches = 1
  /\ calls[1].error.kind = "ProviderHttpError"

(***************************************************************************)
(* C11: getSeries(id) returns the series whose identifier is id when the   *)
(* successful response holds it, and returns null, raising no error, when  *)
(* the successful response holds only other identifiers or no series.      *)
(***************************************************************************)
C11_FindsRequestedSeriesOrNull ==
  \A c \in Calls :
    LET cr == calls[c]
        series == ResultsSeries(cr.response.body)
    IN (/\ cr.op = "getSeries"
        /\ cr.outcomes # <<>> /\ LastOutcome(cr) = "200"
        /\ cr.response.body.status = "REQUEST_SUCCEEDED")
       => /\ cr.pc = "done"
          /\ cr.error = NoError
          /\ IF \E k \in DOMAIN series : series[k].seriesID = cr.arg[1]
               THEN cr.result = <<Series(cr.arg[1])>>
               ELSE cr.result = <<>>

\* getSeries(1) was answered with the series of another identifier only
\* and returned null.
C11_Witness ==
  /\ calls[1].op = "getSeries" /\ calls[1].arg = <<1>>
  /\ calls[1].pc = "done"
  /\ calls[1].outcomes = <<"200">>
  /\ ResultsSeries(calls[1].response.body) = <<Series(OtherId)>>
  /\ calls[1].result = <<>>
  /\ calls[1].error = NoError

(***************************************************************************)
(* C12: getJobSpecificEconomicData returns an empty sequence, issues no    *)
(* exchange and does not touch the cache whenever enrichment is disabled,  *)
(* or the career has no mapping, or its mapping has no series identifier   *)
(* for any role.                                                           *)
(***************************************************************************)
\* The mappings of the table for a career.
MappingsOf(careerId) ==
  {CAREER_BLS_MAPPINGS[k].seriesIds :
     k \in {j \in DOMAIN CAREER_BLS_MAPPINGS :
              CAREER_BLS_MAPPINGS[j].careerId = careerId}}

NothingToFetch(careerId) ==
  \/ env.BLS_ENABLED = "false"
  \/ MappingsOf(careerId) = {}
  \/ \A ids \in MappingsOf(careerId) :
       ids.cpi = NoSeries /\ ids.unemployment = NoSeries
         /\ ids.wages = NoSeries

C12_NothingToFetchReturnsEmpty ==
  \A c \in Calls :
    LET cr == calls[c]
    IN (cr.op = "getJobSpecificEconomicData" /\ NothingToFetch(cr.careerId))
       => /\ cr.pc = "done"
          /\ cr.result = <<>>
          /\ cr.error = NoError
          /\ cr.sent = <<>> /\ cr.fetches = 0
          /\ cr.lookups = <<>> /\ cr.stored = <<>>

\* A career without a mapping and a career whose mapping names no series
\* were asked about: both calls returned nothing, and nothing was sent or
\* looked up.
C12_Witness ==
  /\ env.BLS_ENABLED # "false"
  /\ calls[1].op = "getJobSpecificEconomicData"
  /\ calls[1].careerId = "unknown"
  /\ calls[2].op = "getJobSpecificEconomicData"
  /\ calls[2].careerId = "empty-001"
  /\ \A c \in Pair : /\ calls[c].pc = "done" /\ calls[c].result = <<>>
                      /\ calls[c].sent = <<>> /\ calls[c].lookups = <<>>
  /\ getCacheSize = 0

(***************************************************************************)
(* C13: a call with caching disabled neither reads nor writes the cache:   *)
(* its lookup issues an exchange even when a fresh entry for its key is    *)
(* in the cache, and no step of the call changes the contents or the size  *)
(* of the cache.                                                           *)
(***************************************************************************)
C13_DisabledCallStep(c) ==
  LET cr == calls'[c]
  IN (cr # calls[c] /\ ~getConfig(cr.config).enableCache)
     => /\ cache' = cache
        /\ getCacheSize' = getCacheSize
        /\ cr.stored = <<>>
        /\ LooksUp(c)
             => /\ cr.pc = "fetch"
                /\ Len(cr.sent) = Len(calls[c].sent) + 1
                /\ ~cr.lookups[Len(cr.lookups)].hit

C13_DisabledCacheIsUntouched ==
  [][\A c \in Calls : C13_DisabledCallStep(c)]_vars

\* The first call cached its series; the second, with caching disabled
\* and the entry still fresh, fetched a different answer and left the
\* entry as it was.
C13_Witness ==
  /\ calls[1].op = "getSeries" /\ calls[2].op = "getSeries"
  /\ calls[1].pc = "done" /\ calls[2].pc = "done"
  /\ calls[1].arg = calls[2].arg
  /\ getConfig(calls[1].config).enableCache
  /\ ~getConfig(calls[2].config).enableCache
  /\ calls[1].result = <<Series(1)>>
  /\ Len(calls[1].stored) = 1
  /\ calls[1].stored[1].key = KeyAt(calls[2], 1)
  /\ Younger(calls[1].stored[1].entry, getConfig(calls[2].config).cacheTTL)
  /\ Len(calls[2].sent) = 1
  /\ calls[2].result = <<>>
  /\ calls[2].stored = <<>>
  /\ getCacheSize = 1
  /\ cache[KeyAt(calls[2], 1)] = calls[1].stored[1].entry

(***************************************************************************)
(* C14: within one getMultipleSeries call the batches are issued and       *)
(* awaited in order.  A new exchange starts only when no exchange of the   *)
(* call is pending; while an exchange is pending - an attempt in flight or *)
(* a backoff sleep - no other batch is looked up or sent; the batch that   *)
(* starts is the next one of the input; and an attempt is issued only when *)
(* no attempt of the call is in flight.                                    *)
(***************************************************************************)
Pending(cr) == cr.pc \in {"fetch", "sleep"}

C14_Step(c) ==
  LET old == calls[c]
      cr == calls'[c]
      j == Len(cr.lookups)
  IN /\ cr.sent # old.sent
          => /\ ~Pending(old)
             /\ Len(cr.sent) = Len(old.sent) + 1
             /\ LooksUp(c)
             /\ cr.pc = "fetch"
     /\ Pending(old) => cr.sent = old.sent /\ cr.lookups = old.lookups
     /\ (LooksUp(c) /\ cr.op = "getMultipleSeries")
          => /\ old.pc \in {"idle", "next"}
             /\ cr.i = (j - 1) * CeilingOf(cr)
             /\ {cr.batch[k] : k \in DOMAIN cr.batch}
                  = {BatchAt(cr, j)[k] : k \in DOMAIN BatchAt(cr, j)}
     /\ cr.fetches # old.fetches => old.pc # "fetch" /\ cr.pc = "fetch"

C14_BatchesAreAwaitedInOrder == [][\A c \in Calls : C14_Step(c)]_vars

\* A call for LongLen identifiers has the series of its first batch, was
\* throttled on its second batch and is backing off: two requests were
\* sent and the third batch has not started.
C14_Witness ==
  LET cr == calls[1]
  IN /\ cr.op = "getMultipleSeries" /\ cr.arg = Desc(LongLen)
     /\ CeilingOf(cr) = 25
     /\ cr.pc = "sleep"
     /\ cr.outcomes = <<"429">>
     /\ Len(cr.lookups) = 2 /\ Len(cr.sent) = 2
     /\ cr.results = Echo(cr.sent[1].seriesid)
     /\ getConfig(cr.config).maxRetries = 2

(***************************************************************************)
(* C15: the effective configuration follows defaults < environment <       *)
(* explicit override.  The credential and the cache-enabled flag of a call *)
(* are those of its overrides when given, else those of the environment    *)
(* when set, else the defaults (no credential, caching enabled); the       *)
(* request bodies carry that credential and the call stores its result     *)
(* exactly when that flag is on.                                           *)
(***************************************************************************)
ExpectedApiKey(cr) ==
  IF "apiKey" \in DOMAIN cr.config THEN cr.config.apiKey
  ELSE IF env.BLS_API_KEY # Unset THEN env.BLS_API_KEY
  ELSE ""

ExpectedEnableCache(cr) ==
  IF "enableCache" \in DOMAIN cr.config THEN cr.config.enableCache
  ELSE IF env.BLS_CACHE_ENABLED # Unset THEN env.BLS_CACHE_ENABLED # "false"
  ELSE TRUE

C15_OverrideBeatsEnvBeatsDefault ==
  \A c \in Calls :
    LET cr == calls[c]
    IN cr.pc # "idle"
       => /\ getConfig(cr.config).apiKey = ExpectedApiKey(cr)
          /\ getConfig(cr.config).enableCache = ExpectedEnableCache(cr)
          /\ \A j \in DOMAIN cr.sent :
               cr.sent[j].registrationkey
                 = (IF ExpectedApiKey(cr) = "" THEN Absent
                                              ELSE ExpectedApiKey(cr))
          /\ (cr.pc = "done" /\ cr.sent # <<>> /\ ~IsSplit(cr))
               => (cr.stored # <<>> <=> ExpectedEnableCache(cr))
          /\ cr.stored # <<>> => ExpectedEnableCache(cr)

\* The environment sets a credential and switches caching off, the call
\* switches caching on: the request carried the credential of the
\* environment and the result was stored.
C15_Witness ==
  /\ env = KeyNoCacheEnv
  /\ calls[1].op = "getSeries" /\ calls[1].pc = "done"
  /\ calls[1].config = [enableCache |-> TRUE]
  /\ Len(calls[1].sent) = 1
  /\ calls[1].sent[1].registrationkey = "env-key"
  /\ Len(calls[1].stored) = 1
  /\ getCacheSize = 1

(***************************************************************************)
(* C16: the cache TTL, the attempt ceiling and the base delay come from    *)
(* the environment.  As claimed: when the environment sets them, a call    *)
(* without overrides makes no more attempts than the ceiling of the        *)
(* environment, sleeps its base delay after the first failed attempt, and  *)
(* is served from the cache only by an entry younger than its TTL.  The    *)
(* client reads none of the three: getConfig takes only the credential and *)
(* the cache flag from the environment, and the values getBLSConfig parses *)
(* are passed to no call.                                                  *)
(***************************************************************************)
C16_EnvStep(c) ==
  LET cr == calls'[c]
      settings == getBLSConfig
      j == Len(cr.lookups)
  IN (cr # calls[c] /\ cr.config = NoOverrides)
     => /\ env.BLS_RETRY_MAX_ATTEMPTS # Unset
             => cr.fetches <= settings.retry.maxAttempts
        /\ (env.BLS_RETRY_BASE_DELAY_MS # Unset /\ cr.sleeps # <<>>)
             => cr.sleeps[1] = settings.retry.baseDelayMs
        /\ (env.BLS_CACHE_TTL_MS # Unset /\ LooksUp(c) /\ cr.lookups[j].hit)
             => now - cache[cr.lookups[j].key].timestamp
                  < settings.cache.ttlMs

C16_EnvironmentSettingsAreUsed == [][\A c \in Calls : C16_EnvStep(c)]_vars

(***************************************************************************)
(* C17: the credential decides the batch ceiling and the request body.     *)
(* With a credential in effect a getMultipleSeries call is split above 50  *)
(* identifiers, its full batches hold 50, and every request body carries   *)
(* the credential as registrationkey; without one it is split above 25,    *)
(* its full batches hold 25, and no body has a registrationkey.            *)
(***************************************************************************)
C17_CredentialDecidesCeilingAndBody ==
  \A c \in Calls :
    LET cr == calls[c]
        credential == ExpectedApiKey(cr)
        ceiling == IF credential # "" THEN 50 ELSE 25
    IN cr.op = "getMultipleSeries"
       => /\ cr.maxPer = ceiling
          /\ cr.split <=> Len(cr.arg) > ceiling
          /\ \A j \in DOMAIN cr.sent :
               /\ Len(cr.sent[j].seriesid) <= ceiling
               /\ cr.sent[j].registrationkey
                    = (IF credential # "" THEN credential ELSE Absent)
          /\ (cr.split /\ cr.sent # <<>> /\ cr.lookups[1].hit = FALSE)
               => Len(cr.sent[1].seriesid) = ceiling

\* With the credential of the environment, LongLen identifiers were sent
\* as a batch of 50 and a batch of the rest, both with the credential.
C17_Witness ==
  LET cr == calls[1]
  IN /\ env = KeyEnv
     /\ cr.op = "getMultipleSeries" /\ cr.arg = Asc(LongLen)
     /\ cr.pc = "done"
     /\ Len(cr.sent) = 2
     /\ Len(cr.sent[1].seriesid) = 50
     /\ Len(cr.sent[2].seriesid) = LongLen - 50
     /\ cr.sent[1].registrationkey = "env-key"
     /\ cr.sent[2].registrationkey = "env-key"

(***************************************************************************)
(* C18: the indicators follow the order in which the roles are listed.  As *)
(* claimed: when the provider returns the series in the order of the       *)
(* request, the i-th indicator of getJobSpecificEconomicData is the series *)
(* of the i-th role of the mapping that has a series (price index,         *)
(* unemployment, wages).  getCacheKey sorts the list it is given in place, *)
(* the request carries the sorted list, and the indicators come back in    *)
(* the order of the sorted identifiers.                                    *)
(***************************************************************************)
C18_IndicatorsFollowRoleOrder ==
  \A c \in Calls :
    LET cr == calls[c]
    IN (/\ cr.op = "getJobSpecificEconomicData"
        /\ cr.pc = "done"
        /\ Len(cr.sent) = 1
        /\ cr.response.body.status = "REQUEST_SUCCEEDED"
        /\ ResultsSeries(cr.response.body) = Echo(cr.sent[1].seriesid))
       => /\ Len(cr.result) = Len(cr.arg)
          /\ \A i \in DOMAIN cr.result : cr.result[i].seriesId = cr.arg[i]

(***************************************************************************)
(* C19: each batch sent to the provider is a subsequence of the caller's   *)
(* list.  As claimed: the identifiers of every request body of a           *)
(* getMultipleSeries call appear in the same relative order as in the list *)
(* the caller passed.  The body is built from the list after getCacheKey   *)
(* has sorted it in place, so it carries the identifiers in sorted order.  *)
(***************************************************************************)
RECURSIVE IsSubsequence(_, _)
IsSubsequence(sub, seq) ==
  IF sub = <<>> THEN TRUE
  ELSE IF seq = <<>> THEN FALSE
  ELSE IF sub[1] = seq[1] THEN IsSubsequence(Tail(sub), Tail(seq))
  ELSE IsSubsequence(sub, Tail(seq))

C19_BodyKeepsCallerOrder ==
  \A c \in Calls :
    calls[c].op = "getMultipleSeries"
    => \A j \in DOMAIN calls[c].sent :
         IsSubsequence(calls[c].sent[j].seriesid, calls[c].arg)

(***************************************************************************)
(* C20: the transient-failure error reports the attempt count and the      *)
(* cause of the last attempt.  As claimed: the message names maxRetries    *)
(* attempts; when the last attempt was rejected the cause is its transport *)
(* error, and when the last attempt was throttled the cause is not the     *)
(* transport error of an earlier attempt.  The 429 branch of the loop      *)
(* leaves lastError as it was, so the message keeps the error of the last  *)
(* rejected attempt.                                                       *)
(***************************************************************************)
FailedAfter(cr) ==
  "BLS API request failed after "
    \o ToString(getConfig(cr.config).maxRetries) \o " attempts: "

C20_ReportsCauseOfLastAttempt ==
  \A c \in Calls :
    LET cr == calls[c]
    IN cr.error.kind = "TransientFailure"
       => /\ LastOutcome(cr) = "rejected"
               => cr.error.message = FailedAfter(cr) \o "Network error"
          /\ LastOutcome(cr) = "429"
               => cr.error.message # FailedAfter(cr) \o "Network error"

(***************************************************************************)
(* C21: the backoff delay that follows the retryable outcome of attempt    *)
(* index i (from 0) is exactly retryDelay * 2^i, whether the outcome was a *)
(* throttled response or a rejected fetch, without jitter and without      *)
(* cap: every retryable outcome has its delay, the first delay is          *)
(* retryDelay and each later delay is twice the one before it.             *)
(***************************************************************************)
C21_DelaysDouble ==
  \A c \in Calls :
    LET cr == calls[c]
        retryDelay == getConfig(cr.config).retryDelay
    IN /\ Len(cr.sleeps)
            = Cardinality({k \in DOMAIN cr.outcomes :
                             cr.outcomes[k] \in Retryable})
       /\ \A k \in DOMAIN cr.sleeps :
            /\ cr.outcomes[k] \in Retryable
            /\ cr.sleeps[k] = retryDelay * 2 ^ (k - 1)
            /\ k > 1 => cr.sleeps[k] = 2 * cr.sleeps[k - 1]

\* getSeries under the default configuration backed off 1000, 2000 and
\* 4000 after a rejected, a throttled and a rejected attempt.
C21_Witness ==
  /\ calls[1].op = "getSeries"
  /\ calls[1].config = NoOverrides
  /\ calls[1].outcomes = <<"rejected", "429", "rejected">>
  /\ calls[1].sleeps = <<1000, 2000, 4000>>

(***************************************************************************)
(* C22: which entries are served.  As claimed: only an entry whose age     *)
(* exceeds cacheTTL behaves as absent, so that an entry whose age is       *)
(* exactly cacheTTL, like any younger one, is served without an exchange   *)
(* (C22_EntryAtTTLIsServed).  As amended: an entry is served exactly while *)
(* its age is below cacheTTL; an entry whose age is cacheTTL or more       *)
(* behaves as absent and the lookup issues an exchange.                    *)
(***************************************************************************)
\* Call c looks up, with caching enabled, a key that has an entry.
C22_Finds(c) ==
  LET cr == calls'[c]
      key == KeyAt(cr, Len(cr.lookups))
  IN /\ LooksUp(c)
     /\ getConfig(cr.config).enableCache
     /\ key \in DOMAIN cache

\* The age, at this moment, of the entry that lookup finds.
C22_AgeFound(c) ==
  now - cache[KeyAt(calls'[c], Len(calls'[c].lookups))].timestamp

C22_Served(c) ==
  LET cr == calls'[c]
  IN /\ cr.lookups[Len(cr.lookups)].hit
     /\ cr.sent = calls[c].sent
     /\ cr.pc \in {"done", "next"}

C22_Refetched(c) ==
  LET cr == calls'[c]
  IN /\ ~cr.lookups[Len(cr.lookups)].hit
     /\ Len(cr.sent) = Len(calls[c].sent) + 1
     /\ cr.pc = "fetch"

C23_Step(c) ==
  LET old == calls[c]
      cr == calls'[c]
  IN /\ (cr # old /\ ~(old.pc = "fetch" /\ cr.pc \in {"done", "next"}))
          => /\ cache' = cache
             /\ cr.stored = old.stored
     /\ (cr.pc = "failed" /\ old.pc # "failed")
          => /\ cr.error.kind \in {"TransientFailure", "ProviderHttpError",
                                   "ProviderApiError"}
             /\ cr.key \in DOMAIN cache' <=> cr.key \in DOMAIN cache
             /\ cr.key \in DOMAIN cache => cache'[cr.key] = cache[cr.key]
             /\ Len(cr.stored) < Len(cr.lookups)
             /\ DOMAIN cache' = DOMAIN cache

C23_FailureLeavesCache == [][\A c \in Calls : C23_Step(c)]_vars

\* The first call cached its series at time 0; the repeat, under a
\* cacheTTL of one, found the entry expired and failed with the error of
\* the provider's envelope; the old entry is still in the cache.
C23_Witness ==
  /\ calls[1].pc = "done" /\ calls[1].op = "getSeries"
  /\ Len(calls[1].stored) = 1
  /\ calls[1].stored[1].entry = [data |-> <<Series(1)>>, timestamp |-> 0]
  /\ calls[2].op = "getSeries" /\ calls[2].arg = calls[1].arg
  /\ getConfig(calls[2].config).cacheTTL = 1
  /\ calls[2].pc = "failed"
  /\ calls[2].error.kind = "ProviderApiError"
  /\ calls[2].lookups = <<[key |-> KeyAt(calls[1], 1), hit |-> FALSE]>>
  /\ calls[2].stored = <<>>
  /\ now >= 1
  /\ DOMAIN cache = {KeyAt(calls[1], 1)}
  /\ cache[KeyAt(calls[1], 1)] = calls[1].stored[1].entry

(***************************************************************************)
(* C24: errors are terminal.  In a getMultipleSeries call over several     *)
(* batches, when the exchange of a batch fails, the call fails with the    *)
(* error of that exchange, hands none of the series of the earlier batches *)
(* to its caller, and takes no further step: no later batch is looked up   *)
(* or sent.                                                                *)
(***************************************************************************)
\* The error in which the exchange of call c ends in this step, or NoError.
C24_ExchangeError(c) ==
  LET old == calls[c]
      cr == calls'[c]
      N == getConfig(old.config).maxRetries
  IN IF cr = old THEN NoError
     ELSE IF old.pc = "sleep" /\ Len(old.outcomes) >= N
       THEN TransientFailure(N, old.lastError)
     ELSE IF old.pc = "fetch" /\ Len(cr.outcomes) = Len(old.outcomes) + 1
             /\ LastOutcome(cr) \notin Retryable
       THEN (IF cr.response.status # 200
               THEN ProviderHttpError(cr.response)
             ELSE IF cr.response.body.status # "REQUEST_SUCCEEDED"
               THEN ProviderApiError(cr.response.body)
             ELSE NoError)
     ELSE NoError

C24_Step(c) ==
  LET old == calls[c]
      cr == calls'[c]
  IN /\ C24_ExchangeError(c) # NoError
          => /\ cr.pc = "failed"
             /\ cr.error = C24_ExchangeError(c)
             /\ cr.result = <<>>
             /\ cr.sent = old.sent /\ cr.lookups = old.lookups
     /\ (cr.pc = "failed" /\ old.pc # "failed")
          => C24_ExchangeError(c) # NoError
     /\ old.pc = "failed" => cr = old

C24_ErrorsAreTerminal == [][\A c \in Calls : C24_Step(c)]_vars

\* A call for LongLen identifiers in three batches got the series of its
\* first batch and a provider error for its second: it failed without a
\* result, and the third batch was never looked up or sent.
C24_Witness ==
  LET cr == calls[1]
  IN /\ cr.op = "getMultipleSeries" /\ cr.arg = Desc(LongLen)
     /\ BatchCount(cr) = 3
     /\ cr.pc = "failed"
     /\ cr.error.kind = "ProviderHttpError"
     /\ Len(cr.results) = CeilingOf(cr)
     /\ cr.result = <<>>
     /\ Len(cr.lookups) = 2 /\ Len(cr.sent) = 2

(***************************************************************************)
(* C25: a successful envelope without Results, or whose Results has no     *)
(* series list, yields the empty series list and no error; with caching    *)
(* enabled the empty list is stored under the key like any other result,   *)
(* and a lookup that finds it younger than cacheTTL returns the empty list *)
(* without an exchange.                                                    *)
(***************************************************************************)
\* The response is a successful envelope that carries no series list.
C25_NoList(response) ==
  /\ response.status = 200
  /\ response.body.status = "REQUEST_SUCCEEDED"
  /\ ~(response.body.Results.present /\ response.body.Results.listed)

\* The call record is handed the empty list by fetchSeriesData.
C25_HandedEmpty(cr) ==
  /\ cr.error = NoError
  /\ IF IsSplit(cr)
       THEN cr.pc = "next" /\ cr.batchResults = <<>>
       ELSE cr.pc = "done" /\ cr.result = <<>>

C25_Step(c) ==
  LET old == calls[c]
      cr == calls'[c]
      key == KeyAt(cr, Len(cr.lookups))
      cfg == getConfig(cr.config)
      empty == [data |-> <<>>, timestamp |-> now]
  IN /\ (/\ old.pc = "fetch"
         /\ Len(cr.outcomes) = Len(old.outcomes) + 1
         /\ C25_NoList(cr.response))
          => /\ C25_HandedEmpty(cr)
             /\ cfg.enableCache
                  => /\ key \in DOMAIN cache'
                     /\ cache'[key] = empty
                     /\ cr.stored
                          = Append(old.stored, [key |-> key, entry |-> empty])
     /\ (/\ LooksUp(c)
         /\ cfg.enableCache
         /\ key \in DOMAIN cache
         /\ cache[key].data = <<>>
         /\ Younger(cache[key], cfg.cacheTTL))
          => /\ C25_HandedEmpty(cr)
             /\ cr.sent = old.sent
             /\ cr.lookups[Len(cr.lookups)].hit
             /\ cache' = cache

C25_AbsentResultsAreEmptyAndCached == [][\A c \in Calls : C25_Step(c)]_vars

\* getMultipleSeries for two identifiers was answered by a Results object
\* without a series list and returned the empty list; the identical repeat
\* returned the empty list from the cache without an exchange.
C25_Witness ==
  /\ calls[1].op = "getMultipleSeries" /\ Len(calls[1].arg) = 2
  /\ calls[1].pc = "done"
  /\ calls[1].response.body.Results = NoSeriesList
  /\ calls[1].result = <<>>
  /\ calls[1].stored
       = <<[key |-> KeyAt(calls[1], 1),
            entry |-> [data |-> <<>>, timestamp |-> 0]]>>
  /\ calls[2].op = "getMultipleSeries" /\ calls[2].arg = calls[1].arg
  /\ calls[2].pc = "done"
  /\ calls[2].lookups = <<[key |-> KeyAt(calls[1], 1), hit |-> TRUE]>>
  /\ calls[2].sent = <<>>
  /\ calls[2].result = <<>>

(***************************************************************************)
(* C26: there is no single-flight de-duplication.  A call whose key has no *)
(* valid entry issues its own exchange even while another call has an      *)
(* exchange pending for the same key, so two such calls are in flight      *)
(* together; each successful exchange writes the entry of its key, the     *)
(* later write replacing the earlier one, so that after both succeed the   *)
(* cache holds one entry for the key.                                      *)
(***************************************************************************)
C26_NoSingleFlight(c) ==
  LET old == calls[c]
      cr == calls'[c]
      key == KeyAt(cr, Len(cr.lookups))
      cfg == getConfig(cr.config)
  IN (/\ LooksUp(c)
      /\ \E d \in Calls \ {c} : Pending(calls[d]) /\ calls[d].key = key
      /\ ~(/\ cfg.enableCache
           /\ key \in DOMAIN cache
           /\ Younger(cache[key], cfg.cacheTTL)))
     => /\ cr.pc = "fetch"
        /\ Len(cr.sent) = Len(old.sent) + 1
        /\ cr.sent[Len(cr.sent)].seriesid = key[1]
        /\ ~cr.lookups[Len(cr.lookups)].hit

C26_OneEntryPerKey(c) ==
  LET old == calls[c]
      cr == calls'[c]
      key == KeyAt(cr, Len(cr.lookups))
  IN (/\ old.pc = "fetch"
      /\ cr.pc \in {"done", "next"}
      /\ getConfig(cr.config).enableCache)
     => /\ DOMAIN cache' = DOMAIN cache \cup {key}
        /\ cache'[key] = [data |-> ResultsSeries(cr.response.body),
                          timestamp |-> now]
        /\ getCacheSize'
             = getCacheSize + (IF key \in DOMAIN cache THEN 0 ELSE 1)

C26_ConcurrentCallsBothFetch ==
  [][\A c \in Calls : C26_NoSingleFlight(c) /\ C26_OneEntryPerKey(c)]_vars

\* Two getSeries calls for the same key each missed and each sent a
\* request.  The second, started after the first, stored its series at
\* time 0, before the first stored a different answer at time 1: they were
\* in flight together, and the cache holds the one entry of the first.
C26_Witness ==
  /\ calls[1].op = "getSeries" /\ calls[2].op = "getSeries"
  /\ calls[1].pc = "done" /\ calls[2].pc = "done"
  /\ calls[1].key = calls[2].key
  /\ calls[1].lookups = <<[key |-> calls[1].key, hit |-> FALSE]>>
  /\ calls[2].lookups = calls[1].lookups
  /\ Len(calls[1].sent) = 1 /\ Len(calls[2].sent) = 1
  /\ calls[2].stored
       = <<[key |-> calls[2].key,
            entry |-> [data |-> <<Series(1)>>, timestamp |-> 0]]>>
  /\ calls[1].stored
       = <<[key |-> calls[1].key,
            entry |-> [data |-> <<Series(OtherId)>>, timestamp |-> 1]]>>
  /\ getCacheSize = 1
  /\ DOMAIN cache = {calls[1].key}
  /\ cache[calls[1].key] = calls[1].stored[1].entry

(***************************************************************************)
(* C27: clearCache() does not reach the calls in flight.  It changes no    *)
(* call; an exchange that ends successfully stores its entry whether or    *)
(* not the cache was cleared while it was pending, so the cache can be     *)
(* non-empty again after clearCache() without any exchange started after   *)
(* it; and a later call that finds that entry younger than cacheTTL is     *)
(* served from it without an exchange.                                     *)
(***************************************************************************)
C27_ClearLeavesCalls ==
  (cache # EmptyCache /\ cache' = EmptyCache)
  => /\ calls' = calls
     /\ \A c \in Calls : Pending(calls[c]) => Pending(calls'[c])

C27_StoresAfterClear(c) ==
  LET old == calls[c]
      cr == calls'[c]
  IN (/\ old.pc = "fetch"
      /\ cr.pc = "done"
      /\ getConfig(cr.config).enableCache
      /\ cr.key \notin DOMAIN cache)
     => /\ cr.stored
             = <<[key |-> cr.key,
                  entry |-> [data |-> ResultsSeries(cr.response.body),
                             timestamp |-> now]]>>
        /\ DOMAIN cache' = DOMAIN cache \cup {cr.key}
        /\ cache'[cr.key] = cr.stored[1].entry
        /\ getCacheSize' = getCacheSize + 1

C27_ServedFromStored(c) ==
  LET old == calls[c]
      cr == calls'[c]
      cfg == getConfig(cr.config)
  IN (/\ LooksUp(c)
      /\ cfg.enableCache
      /\ \E d \in Calls \ {c} :
           /\ calls[d].stored # <<>>
           /\ calls[d].stored[1].key = cr.key
           /\ cr.key \in DOMAIN cache
           /\ cache[cr.key] = calls[d].stored[1].entry
           /\ Younger(cache[cr.key], cfg.cacheTTL))
     => /\ cr.pc = "done"
        /\ cr.sent = <<>>
        /\ cr.result = Handed(cr, cache[cr.key].data)

C27_InFlightCallStoresAfterClear ==
  [][/\ C27_ClearLeavesCalls
     /\ \A c \in Calls : C27_StoresAfterClear(c) /\ C27_ServedFromStored(c)
    ]_vars

\* The first call was in flight when the second, for another key, stored
\* its entry; the cache was then cleared, so the entry of the second is
\* gone; the first completed after the clear and its entry is in the
\* cache; the third, identical to the first, was served from that entry
\* and sent nothing.
C27_Witness ==
  /\ \A c \in Calls : calls[c].pc = "done"
  /\ calls[1].key # calls[2].key
  /\ Len(calls[1].stored) = 1 /\ Len(calls[2].stored) = 1
  /\ DOMAIN cache = {calls[1].key}
  /\ cache[calls[1].key] = calls[1].stored[1].entry
  /\ calls[3].arg = calls[1].arg
  /\ calls[3].startYear = calls[1].startYear
  /\ calls[3].endYear = calls[1].endYear
  /\ calls[3].lookups = <<[key |-> calls[1].key, hit |-> TRUE]>>
  /\ calls[3].sent = <<>>
  /\ calls[3].result = calls[1].result
  /\ calls[1].result = <<Series(1)>>

(***************************************************************************)
(* C28: every attempt that ends in a retryable outcome is followed by a    *)
(* backoff sleep, the final attempt included.  An exchange whose           *)
(* maxRetries = N attempts all end in a retryable outcome sleeps N times,  *)
(* retryDelay * (2^N - 1) in total, and raises the transient-failure error *)
(* only when the last sleep ends, without a fetch attempt after it.        *)
(***************************************************************************)
RECURSIVE C28_Total(_)
\* The sum of a sequence of delays.
C28_Total(delays) ==
  IF delays = <<>> THEN 0 ELSE delays[1] + C28_Total(Tail(delays))

C28_Step(c) ==
  LET old == calls[c]
      cr == calls'[c]
      cfg == getConfig(cr.config)
      N == cfg.maxRetries
  IN /\ (/\ old.pc = "fetch"
         /\ Len(cr.outcomes) = Len(old.outcomes) + 1
         /\ LastOutcome(cr) \in Retryable)
          => /\ cr.pc = "sleep"
             /\ cr.error = NoError
             /\ Len(cr.sleeps) = Len(old.sleeps) + 1
             /\ Len(cr.sleeps) = Len(cr.outcomes)
     /\ (cr.error.kind = "TransientFailure" /\ old.error = NoError)
          => /\ old.pc = "sleep"
             /\ cr.pc = "failed"
             /\ Len(old.outcomes) = N /\ AllRetryable(old)
             /\ Len(old.sleeps) = N
             /\ cr.sleeps = old.sleeps
             /\ C28_Total(cr.sleeps) = cfg.retryDelay * (2 ^ N - 1)
             /\ cr.fetches = N /\ old.fetches = N
     /\ (old.pc = "sleep" /\ Len(old.sleeps) = N /\ cr # old)
          => /\ cr.pc = "failed"
             /\ cr.fetches = old.fetches
             /\ cr.outcomes = old.outcomes

C28_SleepsAfterEveryRetryableAttempt ==
  [][\A c \in Calls : C28_Step(c)]_vars

\* getSeries under the default configuration failed after three attempts:
\* it slept three times, 7000 in total, the last time after its final
\* attempt.
C28_Witness ==
  /\ calls[1].op = "getSeries"
  /\ calls[1].config = NoOverrides
  /\ calls[1].pc = "failed"
  /\ calls[1].error.kind = "TransientFailure"
  /\ calls[1].fetches = 3
  /\ Len(calls[1].outcomes) = 3
  /\ Len(calls[1].sleeps) = 3
  /\ C28_Total(calls[1].sleeps) = 7000

(***************************************************************************)
(* C29: every getMultipleSeries call terminates, with a result or an       *)
(* error, provided each fetch attempt settles and each sleep ends.  A call *)
(* over b batches makes at most b * maxRetries fetch attempts: it starts   *)
(* at most b exchanges, one per cache miss; every fetch attempt is the     *)
(* first of a new exchange or the next of the exchange in progress; and no *)
(* exchange makes more than maxRetries.  A call whose lookups were all     *)
(* served from the cache starts no exchange and makes no attempt.          *)
(***************************************************************************)
C29_Terminated(c) == calls[c].pc \in {"done", "failed"}

C29_AttemptsBounded ==
  \A c \in Calls :
    LET cr == calls[c]
        N == getConfig(cr.config).maxRetries
    IN /\ cr.fetches <= N
       /\ Len(cr.sent) = Cardinality(Misses(cr))
       /\ Len(cr.sent) <= BatchCount(cr)
       /\ Len(cr.lookups) <= BatchCount(cr)
       /\ Misses(cr) = {}
            => cr.fetches = 0 /\ cr.sent = <<>> /\ ~Pending(cr)

C29_AttemptStep(c) ==
  LET old == calls[c]
      cr == calls'[c]
  IN cr.fetches # old.fetches
     => \/ /\ LooksUp(c)
           /\ Len(cr.sent) = Len(old.sent) + 1
           /\ cr.fetches = 1
        \/ /\ old.pc = "sleep"
           /\ cr.sent = old.sent /\ cr.lookups = old.lookups
           /\ cr.fetches = old.fetches + 1

C29_EveryCallTerminates ==
  /\ []C29_AttemptsBounded
  /\ [][\A c \in Calls : C29_AttemptStep(c)]_vars
  /\ \A c \in Pair :
       (calls[c].op = "getMultipleSeries") ~> C29_Terminated(c)

\* A call in two batches with maxRetries = 2 returned after two exchanges,
\* the second of them of two attempts, and its repeat returned from the
\* cache without any.
C29_Witness ==
  /\ calls[1].op = "getMultipleSeries" /\ calls[2].op = "getMultipleSeries"
  /\ BatchCount(calls[1]) = 2
  /\ getConfig(calls[1].config).maxRetries = 2
  /\ calls[1].pc = "done"
  /\ Len(calls[1].sent) = 2 /\ calls[1].fetches = 2
  /\ calls[2].arg = calls[1].arg
  /\ calls[2].pc = "done" /\ calls[2].fetches = 0
  /\ calls[2].sent = <<>>
  /\ Len(calls[2].lookups) = 2 /\ Misses(calls[2]) = {}
  /\ calls[2].result = calls[1].result

(***************************************************************************)
(* C30: what getMultipleSeries does to the list its caller passed.  The    *)
(* list changes only when the call is entered, and from then on holds the  *)
(* identifiers the caller passed, each as often as before: in the order    *)
(* the caller gave when the request is split into several batches, and in  *)
(* ascending order when the request fits in one batch.                     *)
(***************************************************************************)
C30_Ascending(ids) ==
  \A k \in 1..(Len(ids) - 1) : ids[k] <= ids[k + 1]

C30_Step(c) ==
  LET old == calls[c]
      cr == calls'[c]
  IN /\ (old.pc = "idle" /\ cr.op = "getMultipleSeries")
          => /\ IsPermutation(cr.seriesIds, cr.arg)
             /\ IF Len(cr.arg) > CeilingOf(cr)
                  THEN cr.seriesIds = cr.arg
                  ELSE C30_Ascending(cr.seriesIds)
     /\ old.pc # "idle"
          => cr.seriesIds = old.seriesIds /\ cr.arg = old.arg

C30_CallerListIsPermuted == [][\A c \in Calls : C30_Step(c)]_vars

\* A call for <<2, 1>> returned the two series, and the list of its
\* caller is now <<1, 2>>.
C30_Witness ==
  /\ calls[1].op = "getMultipleSeries"
  /\ calls[1].pc = "done"
  /\ calls[1].arg = <<2, 1>>
  /\ calls[1].seriesIds = <<1, 2>>
  /\ calls[1].result = Echo(<<1, 2>>)

====
